---- MODULE Spec2Model ----
(***************************************************************************)
(* Model of the batch scheduling and execution engine of the Extended      *)
(* trading bot: the account pool (modules/core/account_pool.py), the       *)
(* generator / queue / workers / shutdown of the orchestrator              *)
(* (modules/core/batch_orchestrator.py) and the share distribution and     *)
(* limit-order retry routines of the trader (modules/core/batch_trader.py).*)
(***************************************************************************)
EXTENDS Integers, Sequences, FiniteSets, TLC

(***************************************************************************)
(* Bounds of the model.                                                    *)
(***************************************************************************)
NumAccounts == 3        \* accounts handed to the pool constructor
MaxTime == 3            \* the clock runs 1..MaxTime
MaxCooldown == 2        \* cooldowns are drawn from 0..MaxCooldown
MaxSize == 3            \* sizes asked of get_random_batch are 1..MaxSize
MaxTasks == 2           \* cap on tasks_generated
NumWorkers == 2         \* config num_workers
MaxQueue == 2           \* config max_queue_size is drawn from 1..MaxQueue
MaxTrades == 1          \* cap on trades_count under the pool interface
MaxErrors == 2          \* config max_consecutive_errors
MaxBatch == 2           \* config batch_size_range is <<1, MaxBatch>>
Prec == 4               \* significant digits of the decimal context (scaled)
WeightDigits == 2       \* decimals str() of a normalized float weight carries (scaled)
MaxSide == 3            \* accounts on one side of a batch are 1..MaxSide
MinTotal == 100         \* batch total, in tenths, is drawn from MinTotal..MaxTotal
MaxTotal == 104
MaxFails == 7           \* the exchange fails the first 0..MaxFails open attempts
NumPositions == 2       \* positions handed to the batch close
MaxShutdownCalls == 2   \* cap on the calls of shutdown()
MaxAge == 1             \* max_age_seconds of get_prices is drawn from 0..MaxAge
MaxLongs == 2           \* config long_accounts_range is <<1, k>>, k in 1..MaxLongs
MaxClock == 2           \* the orchestrator's clock runs 1..MaxClock
MaxTouched == 2         \* accounts 1..MaxTouched are released, disabled and reported on
MaxRun == 3             \* cap on consecutive report_error calls on one account

Accounts == 1..NumAccounts
UnknownId == 0          \* an identifier that is not a key of statuses
Workers == 1..NumWorkers

\* Python's None; 0 and None are both falsy.
None == -1
Truthy(x) == x # None /\ x # 0

VARIABLES
    \* AccountPool / BalancedAccountPool
    statuses,             \* account id -> AccountStatus
    consecutive_errors,   \* account id -> count (BalancedAccountPool)
    use_balanced_pool,    \* config: the pool is a BalancedAccountPool
    cooldown_seconds,     \* pool default cooldown = worker cooldown_after_trade
    max_consecutive_errors,
    now,                  \* time.time()
    \* the last pool call made through the pool's interface and its result
    last,
    relDue,               \* account id -> due time of its latest release, or None
    hist,                 \* the report / disable / enable calls made on the pool
    \* BatchOrchestrator
    task_queue,           \* asyncio.Queue contents (sequence of TradingTask)
    unfinished_tasks,     \* asyncio.Queue's count of items not yet task_done()
    max_queue_size,       \* config max_queue_size
    batch_size_range,     \* config batch_size_range <<min, max>>
    gen,                  \* BatchGenerator fields
    worker,               \* worker id -> TradingWorker fields and position
    orch,                 \* BatchOrchestrator fields and shutdown position
    \* BatchTrader
    dist,                 \* _open_positions: batch total, weights and USD shares
    opn,                  \* _open_position_with_limit_retry of one account
    cls,                  \* _close_position_with_limit_retry of one account
    bcls,                 \* _close_positions_batch
    closeall,             \* the close step of shutdown: close_all_positions
    trade,                \* one task's _open_positions and _monitor_positions
    \* OrderBookCache
    orderbook_cache       \* the singleton: its cache and the calls made on it

poolVars == <<statuses, consecutive_errors, use_balanced_pool, cooldown_seconds,
              max_consecutive_errors, now>>
apiVars == <<last, relDue, hist>>
orchVars == <<task_queue, unfinished_tasks, max_queue_size, batch_size_range,
              gen, worker, orch>>
traderVars == <<dist, opn, cls, bcls, closeall, trade, orderbook_cache>>

vars == <<poolVars, apiVars, orchVars, traderVars>>

(***************************************************************************)
(* account_pool.py                                                         *)
(***************************************************************************)
AccountStatus(s, rt, tc) == [status |-> s, release_time |-> rt, trades_count |-> tc]

\* AccountPool.__init__: every account starts available.
InitStatuses == [a \in Accounts |-> AccountStatus("available", None, 0)]

CountStatus(sts, s) == Cardinality({a \in Accounts : sts[a].status = s})

\* as update_cooldowns, expiring only once now > release_time
update_cooldowns_strict(sts, t) ==
    [a \in Accounts |->
        IF sts[a].status = "cooldown" /\ Truthy(sts[a].release_time)
           /\ t > sts[a].release_time
        THEN [sts[a] EXCEPT !.status = "available", !.release_time = None]
        ELSE sts[a]]

\* AccountPool._update_cooldowns
update_cooldowns(sts, t) ==
    [a \in Accounts |->
        IF sts[a].status = "cooldown" /\ Truthy(sts[a].release_time)
           /\ t >= sts[a].release_time
        THEN [sts[a] EXCEPT !.status = "available", !.release_time = None]
        ELSE sts[a]]

\* AccountPool.get_available_count (after its _update_cooldowns)
get_available_count(sts, t) == CountStatus(update_cooldowns(sts, t), "available")

\* round(busy / total * 100, 1) in tenths of a percent: the nearest tenth, a
\* tie going to the even one
RoundedPercent(busy, total) ==
    LET q == (1000 * busy) \div total
        r == (1000 * busy) % total
    IN IF 2 * r > total \/ (2 * r = total /\ q % 2 = 1) THEN q + 1 ELSE q

\* as get_pool_stats, with the cooldown accounts left out of utilization
get_pool_stats_in_trade_only(sts, t) ==
    LET u == update_cooldowns(sts, t)
        total == Cardinality(Accounts)
        in_trade == CountStatus(u, "in_trade")
    IN [total |-> total,
        available |-> CountStatus(u, "available"),
        in_trade |-> in_trade,
        cooldown |-> CountStatus(u, "cooldown"),
        disabled |-> CountStatus(u, "disabled"),
        utilization |-> IF total > 0 THEN RoundedPercent(in_trade, total) ELSE 0]

\* AccountPool.get_pool_stats: the dictionary it returns; utilization, a
\* percentage rounded to one decimal, is counted in tenths of a percent
get_pool_stats(sts, t) ==
    LET u == update_cooldowns(sts, t)
        total == Cardinality(Accounts)
        in_trade == CountStatus(u, "in_trade")
        cooldown == CountStatus(u, "cooldown")
    IN [total |-> total,
        available |-> CountStatus(u, "available"),
        in_trade |-> in_trade,
        cooldown |-> cooldown,
        disabled |-> CountStatus(u, "disabled"),
        utilization |-> IF total > 0
                        THEN RoundedPercent(in_trade + cooldown, total)
                        ELSE 0]

Available(sts) == {a \in Accounts : sts[a].status = "available"}

\* as Sample, with up to k elements
Sample_atmost(S, k) == {B \in SUBSET S : Cardinality(B) <= k}

\* random.sample(population, k): any k distinct elements
Sample(S, k) == {B \in SUBSET S : Cardinality(B) = k}

Min(a, b) == IF a <= b THEN a ELSE b

\* as MarkInTrade, leaving the chosen accounts as they are
MarkInTrade_skip(sts, batch) == sts

\* marking of the chosen batch ("Пометить как in_trade")
MarkInTrade(sts, batch) ==
    [a \in Accounts |->
        IF a \in batch THEN [sts[a] EXCEPT !.status = "in_trade"] ELSE sts[a]]

NoBatch(sts) == [none |-> TRUE, batch |-> {}, statuses |-> sts]
Batch(sts, b) == [none |-> FALSE, batch |-> b, statuses |-> MarkInTrade(sts, b)]

\* as AccountPool_get_random_batch, marking the sample before the size test
AccountPool_get_random_batch_partial(sts, t, size, min_size) ==
    LET u == update_cooldowns(sts, t)
        available == Available(u)
        batch_size == Min(size, Cardinality(available))
    IN {IF Cardinality(b) < (IF Truthy(min_size) THEN min_size ELSE size)
        THEN [none |-> TRUE, batch |-> {}, statuses |-> MarkInTrade(u, b)]
        ELSE Batch(u, b) : b \in Sample(available, batch_size)}

\* AccountPool.get_random_batch: the set of its possible outcomes
\* (return value and pool state after the call).
AccountPool_get_random_batch(sts, t, size, min_size) ==
    LET u == update_cooldowns(sts, t)
        available == Available(u)
        min_sz == IF Truthy(min_size) THEN min_size ELSE size
        batch_size == Min(size, Cardinality(available))
    IN IF Cardinality(available) < min_sz
       THEN {NoBatch(u)}
       ELSE {Batch(u, b) : b \in Sample(available, batch_size)}

\* sorted(available, key=trades_count): a stable sort of the dictionary order
SortsBefore(sts, a, b) ==
    \/ sts[a].trades_count < sts[b].trades_count
    \/ sts[a].trades_count = sts[b].trades_count /\ a < b

SortedPosition(sts, S, a) == Cardinality({b \in S : SortsBefore(sts, b, a)})

\* as BalancedAccountPool_get_random_batch, sampling from every available
\* account
BalancedAccountPool_get_random_batch_unsorted(sts, t, size, min_size, balanced) ==
    IF ~balanced
    THEN AccountPool_get_random_batch(sts, t, size, min_size)
    ELSE
    LET u == update_cooldowns(sts, t)
        available == Available(u)
        min_sz == IF Truthy(min_size) THEN min_size ELSE size
        batch_size == Min(size, Cardinality(available))
    IN IF Cardinality(available) < min_sz
       THEN {NoBatch(u)}
       ELSE {Batch(u, b) : b \in Sample(available, batch_size)}

\* BalancedAccountPool.get_random_batch
BalancedAccountPool_get_random_batch(sts, t, size, min_size, balanced) ==
    IF ~balanced
    THEN AccountPool_get_random_batch(sts, t, size, min_size)
    ELSE
    LET u == update_cooldowns(sts, t)
        available == Available(u)
        min_sz == IF Truthy(min_size) THEN min_size ELSE size
        batch_size == Min(size, Cardinality(available))
        candidates == IF Cardinality(available) > batch_size
                      THEN {a \in available :
                              SortedPosition(u, available, a) < batch_size * 2}
                      ELSE available
    IN IF Cardinality(available) < min_sz
       THEN {NoBatch(u)}
       ELSE {Batch(u, b) :
                b \in Sample(candidates, Min(batch_size, Cardinality(candidates)))}

\* the pool object's get_random_batch; AccountPool takes no `balanced` argument
get_random_batch(sts, t, size, min_size, balanced, is_balanced_pool) ==
    IF is_balanced_pool
    THEN BalancedAccountPool_get_random_batch(sts, t, size, min_size, balanced)
    ELSE AccountPool_get_random_batch(sts, t, size, min_size)

\* as release_batch, without the trade counter
release_batch_uncounted(sts, account_ids, cooldown_override, default_cooldown, t) ==
    LET cooldown == IF cooldown_override # None THEN cooldown_override
                    ELSE default_cooldown
        release_time == t + cooldown
    IN [a \in Accounts |->
        IF a \in account_ids
        THEN [sts[a] EXCEPT !.status = "cooldown",
                            !.release_time = release_time]
        ELSE sts[a]]

\* AccountPool.release_batch
release_batch(sts, account_ids, cooldown_override, default_cooldown, t) ==
    LET cooldown == IF cooldown_override # None THEN cooldown_override
                    ELSE default_cooldown
        release_time == t + cooldown
    IN [a \in Accounts |->
        IF a \in account_ids
        THEN [sts[a] EXCEPT !.status = "cooldown",
                            !.release_time = release_time,
                            !.trades_count = @ + 1]
        ELSE sts[a]]

\* as release_immediately, with an unknown identifier ending the call
release_immediately_stops(sts, account_ids) ==
    IF UnknownId \in account_ids THEN sts
    ELSE [a \in Accounts |->
            IF a \in account_ids
            THEN [sts[a] EXCEPT !.status = "available", !.release_time = None]
            ELSE sts[a]]

\* AccountPool.release_immediately
release_immediately(sts, account_ids) ==
    [a \in Accounts |->
        IF a \in account_ids
        THEN [sts[a] EXCEPT !.status = "available", !.release_time = None]
        ELSE sts[a]]

\* AccountPool.disable_account
disable_account(sts, account_id) ==
    IF account_id \notin Accounts THEN sts
    ELSE [sts EXCEPT ![account_id].status = "disabled"]

\* as enable_account, with the release time left as it was
enable_account_keeps(sts, account_id) ==
    IF account_id \notin Accounts THEN sts
    ELSE [sts EXCEPT ![account_id].status = "available"]

\* AccountPool.enable_account
enable_account(sts, account_id) ==
    IF account_id \notin Accounts THEN sts
    ELSE [sts EXCEPT ![account_id].status = "available",
                     ![account_id].release_time = None]

\* as report_error, with > for >=
report_error_late(sts, errs, account_id, max_errors) ==
    IF account_id \notin DOMAIN errs
    THEN [statuses |-> sts, consecutive_errors |-> errs]
    ELSE LET e == [errs EXCEPT ![account_id] = @ + 1]
         IN [statuses |-> IF e[account_id] > max_errors
                          THEN disable_account(sts, account_id) ELSE sts,
             consecutive_errors |-> e]

\* BalancedAccountPool.report_error: the pool state after the call
report_error(sts, errs, account_id, max_errors) ==
    IF account_id \notin DOMAIN errs
    THEN [statuses |-> sts, consecutive_errors |-> errs]
    ELSE LET e == [errs EXCEPT ![account_id] = @ + 1]
         IN [statuses |-> IF e[account_id] >= max_errors
                          THEN disable_account(sts, account_id) ELSE sts,
             consecutive_errors |-> e]

\* BalancedAccountPool.report_success
report_success(errs, account_id) ==
    IF account_id \in DOMAIN errs THEN [errs EXCEPT ![account_id] = 0] ELSE errs


(***************************************************************************)
(* orderbook_cache.py: the cache as constructed                             *)
(***************************************************************************)
\* get_prices returning None
NoPrices == [found |-> FALSE, bid |-> 0, ask |-> 0]

NoCacheCall == [op |-> "none", market |-> "", max_age_seconds |-> 0, time |-> 0,
                well_formed |-> FALSE, outcome |-> "none", result |-> NoPrices,
                prices_from |-> "none", offset_from |-> "none"]

\* OrderBookCache.__init__: self._cache = {}.  latest and offered remember,
\* per stored key, the latest update that had both sides non-empty: latest
\* the latest one whose best prices could be read, offered the latest one
EmptyDict == [k \in {} |-> 0]

OrderBookCache_init ==
    [cache |-> EmptyDict, latest |-> EmptyDict, offered |-> EmptyDict,
     call |-> NoCacheCall]


(***************************************************************************)
(* batch_trader.py: values before any trading call                          *)
(***************************************************************************)
DistIdle == [pc |-> "idle", total |-> 0, long_raw |-> << >>, short_raw |-> << >>,
             half |-> 0, long_sizes |-> << >>, short_sizes |-> << >>]

\* order_type: TRADING_SETTINGS['order_type']; use_market_fallback:
\* LIMIT_ORDER_CONFIG['use_market_fallback']; market_orders: the
\* place_market_order calls _open_position made; live: an opening limit
\* order of the account is resting on the exchange
OpenIdle == [pc |-> "idle", fails |-> 0, attempt |-> 0, orders |-> 0,
             result |-> FALSE, how |-> "none", order_type |-> "LIMIT",
             use_market_fallback |-> TRUE, market_orders |-> 0,
             live |-> FALSE]

\* position: the exchange still holds the position; open_at_fallback: it did
\* when the fallback began; query: what the fallback's get_positions did
\* ("none" before it, "raised", "empty", "position"); cancel_after_close: a
\* cancel_all_orders was issued for the account once its close had gone
\* through (position seen closed, or the market order placed)
CloseIdle == [pc |-> "idle", use_market_fallback |-> TRUE, position |-> TRUE,
              attempt |-> 0, limit_orders |-> 0, market_orders |-> 0,
              fallbacks |-> 0, open_at_fallback |-> FALSE, query |-> "none",
              market_reduce_only |-> FALSE, result |-> FALSE,
              cancel_after_close |-> FALSE]

Positions == 1..NumPositions

BatchCloseIdle == [pc |-> "idle", use_market_fallback |-> TRUE, attempt |-> 0,
                   position |-> [p \in Positions |-> TRUE],
                   close_status |-> [p \in Positions |-> FALSE],
                   limit_orders |-> [p \in Positions |-> 0],
                   market_orders |-> [p \in Positions |-> 0],
                   fallbacks |-> [p \in Positions |-> 0],
                   open_at_fallback |-> [p \in Positions |-> FALSE],
                   query |-> [p \in Positions |-> "none"],
                   market_reduce_only |-> [p \in Positions |-> FALSE],
                   cancel_after_close |-> [p \in Positions |-> FALSE],
                   success_count |-> 0, failed_count |-> 0]

\* queried, found: the accounts the latest _fetch_all_positions asked and
\* those it found a position on; close_targets: the accounts handed to
\* _close_positions_batch so far
CloseAllIdle == [pc |-> "idle", close_positions |-> TRUE, open |-> {},
                 close_all_calls |-> 0, detection_round |-> 0, fetches |-> 0,
                 queried |-> {}, found |-> {}, batch_closes |-> 0,
                 close_targets |-> {}, mass_cancels |-> 0, mass_cancelled |-> {},
                 raised |-> FALSE]

\* results: the outcome of each account's _open_position; open_positions: the
\* accounts _monitor_positions still watches; to_close: the accounts it closes
\* at the end; open_calls: calls of _open_positions made for the task;
\* holding: the accounts with a position open on the exchange;
\* close_attempted: the accounts _close_positions_batch worked on;
\* released: the accounts given back to the pool
TradeIdle == [pc |-> "idle", accounts |-> {},
              results |-> [a \in Accounts |-> "none"],
              opened_count |-> 0, failed_count |-> 0, positions_opened |-> 0,
              open_positions |-> {}, to_close |-> {}, open_calls |-> 0,
              holding |-> {}, close_attempted |-> {}, released |-> {},
              stop_loss_enabled |-> FALSE, steps |-> << >>,
              long_accounts_range |-> <<1, 1>>, task_ids |-> {},
              long_accounts |-> {}, short_accounts |-> {},
              sl_closes |-> {}, sl_failed |-> {},
              error |-> "none", reported |-> "none",
              task_result |-> [success |-> FALSE, positions_opened |-> 0,
                               error |-> "no result"]]

TraderIdle ==
    /\ dist = DistIdle
    /\ opn = OpenIdle
    /\ cls = CloseIdle
    /\ bcls = BatchCloseIdle
    /\ closeall = CloseAllIdle
    /\ trade = TradeIdle
    /\ orderbook_cache = OrderBookCache_init


(***************************************************************************)
(* batch_orchestrator.py: construction                                     *)
(***************************************************************************)
DefaultQueueMaxsize == 50      \* config.get('max_queue_size', 50)
DefaultGenMaxQueue == 10       \* config.get('max_queue_size', 10)

NoTask == [task_id |-> 0, account_ids |-> {}]

\* TradingTask (the market plays no part in scheduling and is left out)
TradingTask(task_id, account_ids) == [task_id |-> task_id, account_ids |-> account_ids]

\* BatchGenerator.__init__
BatchGenerator_init(cfg_max_queue_size) ==
    [running |-> FALSE, tasks_generated |-> 0, pc |-> "created",
     max_queue_size |-> IF cfg_max_queue_size = None THEN DefaultGenMaxQueue
                        ELSE cfg_max_queue_size,
     last |-> "none"]

\* TaskResult (success and error; the counts and times are left out)
TaskResult(success, error) == [success |-> success, error |-> error]

\* no task processed yet
NoResult == TaskResult(FALSE, "no result")

\* TradingWorker.__init__; result is the TaskResult of the last task processed
TradingWorker_init ==
    [running |-> FALSE, pc |-> "created", task |-> NoTask,
     tasks_processed |-> 0, tasks_successful |-> 0, tasks_failed |-> 0,
     result |-> NoResult]

\* BatchOrchestrator.__init__ (its own fields)
\* shutdown_calls, close_positions, steps and raised record the calls of
\* shutdown(): how many, the argument of the one that ran, the steps it has
\* taken so far in order, and whether its close step raised
BatchOrchestrator_init ==
    [running |-> FALSE, pc |-> "constructed", drain |-> "none",
     cancelled |-> FALSE, close_calls |-> 0, cancel_calls |-> 0, stats_printed |-> 0,
     shutdown_calls |-> 0, close_positions |-> TRUE, steps |-> << >>,
     raised |-> FALSE]

\* as QueueMaxsize, with a default below the generator's
QueueMaxsize_low(cfg_max_queue_size) ==
    IF cfg_max_queue_size = None THEN 1 ELSE cfg_max_queue_size

\* asyncio.Queue(maxsize=config.get('max_queue_size', 50)); maxsize <= 0 is unbounded
QueueMaxsize(cfg_max_queue_size) ==
    IF cfg_max_queue_size = None THEN DefaultQueueMaxsize ELSE cfg_max_queue_size

OrchConstructed(cfg_max_queue_size, size_range) ==
    /\ task_queue = << >>
    /\ unfinished_tasks = 0
    /\ max_queue_size = cfg_max_queue_size
    /\ batch_size_range = size_range
    /\ gen = BatchGenerator_init(cfg_max_queue_size)
    /\ worker = [w \in Workers |-> TradingWorker_init]
    /\ orch = BatchOrchestrator_init

(***************************************************************************)
(* The pool driven through its interface (PoolSpec): any sequence of       *)
(* get_random_batch, release_batch, release_immediately, disable_account,  *)
(* enable_account and get_pool_stats calls, with the clock advancing.      *)
(***************************************************************************)
AllIds == Accounts \cup {UnknownId}
IdLists == {ids \in SUBSET AllIds : ids # {} /\ Cardinality(ids) <= 2}

\* no report, disable or enable call made yet
NoCalls == [run |-> [a \in Accounts |-> 0], barred |-> {},
            call |-> [op |-> "none", ids |-> {}, cooldown_override |-> None]]

\* the record kept after any call other than get_random_batch
Other ==
    [op |-> "other", size |-> 0, min_size |-> None, balanced |-> FALSE,
     none |-> TRUE, batch |-> {}, avail |-> 0,
     before |-> [a \in Accounts |-> "available"],
     stats |-> get_pool_stats(InitStatuses, 1)]

\* the state an account is in once lazy expiry is taken into account
StateAt(sts, t, a) == update_cooldowns(sts, t)[a].status

\* relDue after a call that ends the release episode of the accounts in S
ClearDue(S) == [a \in Accounts |-> IF a \in S THEN None ELSE relDue[a]]

PoolSelect(size, min_size, balanced) ==
    \E out \in get_random_batch(statuses, now, size, min_size, balanced,
                                use_balanced_pool) :
        /\ statuses' = out.statuses
        /\ last' = [op |-> "select", size |-> size, min_size |-> min_size,
                    balanced |-> balanced, none |-> out.none, batch |-> out.batch,
                    avail |-> get_available_count(statuses, now),
                    before |-> [a \in Accounts |-> StateAt(statuses, now, a)],
                    stats |-> get_pool_stats(statuses, now)]
        /\ relDue' = ClearDue(out.batch)
        /\ UNCHANGED <<consecutive_errors, use_balanced_pool, cooldown_seconds,
                       max_consecutive_errors, now, orchVars>>
    /\ UNCHANGED <<hist, traderVars>>

PoolRelease(account_ids, cooldown_override) ==
    /\ \A a \in account_ids \cap Accounts : statuses[a].trades_count < MaxTrades
    /\ statuses' = release_batch(statuses, account_ids, cooldown_override,
                                 cooldown_seconds, now)
    /\ last' = Other
    /\ relDue' = [a \in Accounts |->
                    IF a \in account_ids
                    THEN now + (IF cooldown_override # None THEN cooldown_override
                                ELSE cooldown_seconds)
                    ELSE relDue[a]]
    /\ UNCHANGED <<consecutive_errors, use_balanced_pool, cooldown_seconds,
                   max_consecutive_errors, now, orchVars>>
    /\ UNCHANGED <<hist, traderVars>>

PoolReleaseImmediately(account_ids) ==
    /\ statuses' = release_immediately(statuses, account_ids)
    /\ last' = Other
    /\ relDue' = ClearDue(account_ids)
    /\ UNCHANGED <<consecutive_errors, use_balanced_pool, cooldown_seconds,
                   max_consecutive_errors, now, orchVars>>
    /\ UNCHANGED <<hist, traderVars>>

PoolDisable(account_id) ==
    /\ statuses' = disable_account(statuses, account_id)
    /\ last' = Other
    /\ relDue' = ClearDue({account_id})
    /\ UNCHANGED <<consecutive_errors, use_balanced_pool, cooldown_seconds,
                   max_consecutive_errors, now, orchVars>>
    /\ UNCHANGED <<hist, traderVars>>

PoolEnable(account_id) ==
    /\ statuses' = enable_account(statuses, account_id)
    /\ last' = Other
    /\ relDue' = ClearDue({account_id})
    /\ UNCHANGED <<consecutive_errors, use_balanced_pool, cooldown_seconds,
                   max_consecutive_errors, now, orchVars>>
    /\ UNCHANGED <<hist, traderVars>>

\* get_pool_stats / get_available_count / get_cooldown_count: the read
\* accessors run _update_cooldowns on the pool first.
PoolStats ==
    /\ statuses' = update_cooldowns(statuses, now)
    /\ last' = Other
    /\ UNCHANGED <<relDue, consecutive_errors, use_balanced_pool, cooldown_seconds,
                   max_consecutive_errors, now, orchVars>>
    /\ UNCHANGED <<hist, traderVars>>

\* time.time() advances between calls
PoolTick ==
    /\ now < MaxTime
    /\ now' = now + 1
    /\ last' = Other
    /\ UNCHANGED <<statuses, relDue, consecutive_errors, use_balanced_pool,
                   cooldown_seconds, max_consecutive_errors, orchVars>>
    /\ UNCHANGED <<hist, traderVars>>

\* a constructed pool and orchestrator, nothing started
Constructed ==
    /\ statuses = InitStatuses
    /\ consecutive_errors = [a \in Accounts |-> 0]
    /\ use_balanced_pool = TRUE
    /\ cooldown_seconds = 1
    /\ max_consecutive_errors = 1
    /\ now = 1
    /\ last = Other
    /\ relDue = [a \in Accounts |-> None]
    /\ hist = NoCalls
    /\ OrchConstructed(1, <<1, 1>>)

PoolInit ==
    /\ Constructed
    /\ TraderIdle

PoolNext ==
    \/ \E size \in 1..MaxSize, min_size \in {None} \cup 1..MaxSize,
          balanced \in BOOLEAN : PoolSelect(size, min_size, balanced)
    \/ \E ids \in IdLists, c \in {None, 0, MaxCooldown} : PoolRelease(ids, c)
    \/ \E ids \in IdLists : PoolReleaseImmediately(ids)
    \/ \E a \in AllIds : PoolDisable(a)
    \/ \E a \in AllIds : PoolEnable(a)
    \/ PoolStats
    \/ PoolTick

PoolSpec == PoolInit /\ [][PoolNext]_vars

(***************************************************************************)
(* Properties of the pool interface (PoolSpec)                              *)
(***************************************************************************)
EffMinSize(size, min_size) == IF min_size = None THEN size ELSE min_size

LazyExpiry(sts, due, t) ==
    \A a \in Accounts :
        due[a] # None =>
            /\ (StateAt(sts, t, a) = "available") <=> (t >= due[a])
            /\ t >= due[a] =>
                 \E out \in get_random_batch(sts, t, 1, None, FALSE, TRUE) :
                     a \in out.batch

\* C2: an account released with cooldown C at time t (its latest release, with
\* no release_immediately / enable / disable since) is not returned by
\* get_random_batch before t + C, and from t + C on it counts as available
\* and can be returned without any other call.
C2_CooldownCorrectness ==
    [][/\ \A a \in Accounts :
            (last'.op = "select" /\ a \in last'.batch
             /\ statuses[a].status # "in_trade" /\ statuses'[a].status = "in_trade")
            => (relDue[a] = None \/ now >= relDue[a])
       /\ LazyExpiry(statuses', relDue', now')]_vars

\* an account still stored as cooldown whose release time has been reached
C2_Witness ==
    \E a \in Accounts :
        /\ statuses[a].status = "cooldown"
        /\ relDue[a] # None /\ relDue[a] > 1 /\ now >= relDue[a]

C9_NoPartialAllocation ==
    (last.op = "select" /\ last.avail < EffMinSize(last.size, last.min_size))
    => /\ last.none /\ last.batch = {}
       /\ \A a \in Accounts :
            statuses[a].status = "in_trade" => last.before[a] = "in_trade"
       /\ get_pool_stats(statuses, now) = last.stats

\* nothing returned although two accounts were available
C9_Witness ==
    /\ last.op = "select" /\ last.none
    /\ last.avail = 2 /\ last.min_size = 3

\* the accounts that were available when the latest selection was made
AvailableBefore == {a \in Accounts : last.before[a] = "available"}

\* the available accounts that had made fewer trades than a
LessUsed(a) ==
    {b \in AvailableBefore : statuses[b].trades_count < statuses[a].trades_count}

\* C26: a balanced selection that returns k accounts takes them from the 2k
\* least-used available ones: fewer than 2k available accounts had a strictly
\* smaller trade count than any returned account; and when no more accounts
\* are available than were asked for, all of them are returned.
C26_BalancedWindow ==
    (last.op = "select" /\ last.balanced /\ ~last.none)
    => /\ \A a \in last.batch :
             Cardinality(LessUsed(a)) < 2 * Cardinality(last.batch)
       /\ Cardinality(AvailableBefore) <= last.size
             => last.batch = AvailableBefore

\* one account asked for while three are available, one of them more used
\* than the two others
C26_Witness ==
    /\ last.op = "select" /\ last.balanced /\ ~last.none
    /\ Cardinality(last.batch) = 1
    /\ \E c \in AvailableBefore \ last.batch : Cardinality(LessUsed(c)) >= 2

\* the four account states
States == {"available", "in_trade", "cooldown", "disabled"}

poolConfig == <<use_balanced_pool, cooldown_seconds, max_consecutive_errors>>

\* as QueueIsFull, with > for >=
QueueIsFull_gt(qsize, limit) == qsize > limit

\* BatchGenerator._generate_batch: `self.queue.qsize() >= self.max_queue_size`
QueueIsFull(qsize, limit) == qsize >= limit

\* asyncio.Queue.full()
QueueFull(q, maxsize) == maxsize > 0 /\ Len(q) >= maxsize

\* BatchGenerator.run, one loop iteration: _generate_batch, then the sleep
GenerateBatch ==
    /\ gen.pc = "sleep" /\ gen.running
    /\ UNCHANGED <<poolConfig, now, apiVars, max_queue_size, batch_size_range,
                   worker, orch>>
    /\ IF QueueIsFull(Len(task_queue), gen.max_queue_size)
       THEN /\ gen' = [gen EXCEPT !.last = "full"]
            /\ UNCHANGED <<statuses, consecutive_errors, task_queue, unfinished_tasks>>
       ELSE \E batch_size \in batch_size_range[1]..batch_size_range[2] :
            \E out \in get_random_batch(statuses, now, batch_size,
                                        batch_size_range[1], TRUE, use_balanced_pool) :
               /\ statuses' = out.statuses
               /\ UNCHANGED consecutive_errors
               /\ IF out.none \/ out.batch = {}
                  THEN /\ gen' = [gen EXCEPT !.last = "short"]
                       /\ UNCHANGED <<task_queue, unfinished_tasks>>
                  ELSE IF QueueFull(task_queue, QueueMaxsize(max_queue_size))
                  THEN \* queue.put suspends the generator
                       /\ gen' = [gen EXCEPT !.pc = "put", !.last = "blocked"]
                       /\ UNCHANGED <<task_queue, unfinished_tasks>>
                  ELSE /\ gen.tasks_generated < MaxTasks
                       /\ task_queue' = Append(task_queue,
                                  TradingTask(gen.tasks_generated + 1, out.batch))
                       /\ unfinished_tasks' = unfinished_tasks + 1
                       /\ gen' = [gen EXCEPT !.tasks_generated = @ + 1,
                                             !.last = "put"]
    /\ UNCHANGED traderVars

\* BatchGenerator.run: the loop condition read after stop()
GenExit ==
    /\ gen.pc = "sleep" /\ ~gen.running
    /\ gen' = [gen EXCEPT !.pc = "done"]
    /\ UNCHANGED <<poolVars, apiVars, task_queue, unfinished_tasks, max_queue_size,
                   batch_size_range, worker, orch>>
    /\ UNCHANGED traderVars

\* as WorkerGet, with the task left in the queue
WorkerGet_peek(w) ==
    /\ worker[w].pc = "idle" /\ ~orch.cancelled
    /\ task_queue # << >>
    /\ worker' = [worker EXCEPT ![w].pc = "busy", ![w].task = Head(task_queue)]
    /\ UNCHANGED task_queue
    /\ UNCHANGED <<poolVars, apiVars, unfinished_tasks, max_queue_size,
                   batch_size_range, gen, orch>>
    /\ UNCHANGED traderVars

\* TradingWorker.run: queue.get() returns a task
WorkerGet(w) ==
    /\ worker[w].pc = "idle" /\ ~orch.cancelled
    /\ task_queue # << >>
    /\ worker' = [worker EXCEPT ![w].pc = "busy", ![w].task = Head(task_queue)]
    /\ task_queue' = Tail(task_queue)
    /\ UNCHANGED <<poolVars, apiVars, unfinished_tasks, max_queue_size,
                   batch_size_range, gen, orch>>
    /\ UNCHANGED traderVars

\* as WorkerExit, with the loop condition never read
WorkerExit_stays(w) ==
    /\ FALSE
    /\ UNCHANGED vars

\* TradingWorker.run: the loop condition read after stop() (poll timed out)
WorkerExit(w) ==
    /\ worker[w].pc = "idle" /\ ~worker[w].running /\ ~orch.cancelled
    /\ worker' = [worker EXCEPT ![w].pc = "stopped"]
    /\ UNCHANGED <<poolVars, apiVars, task_queue, unfinished_tasks, max_queue_size,
                   batch_size_range, gen, orch>>
    /\ UNCHANGED traderVars

\* TradingWorker._process_task, finally block: report_success / report_error
\* for every account of the task (BalancedAccountPool only)
ReportResult(sts, errs, account_ids, success, is_balanced_pool, max_errors) ==
    IF ~is_balanced_pool
    THEN [statuses |-> sts, consecutive_errors |-> errs]
    ELSE IF success
    THEN [statuses |-> sts,
          consecutive_errors |->
              [a \in Accounts |-> IF a \in account_ids THEN report_success(errs, a)[a]
                                  ELSE errs[a]]]
    ELSE [statuses |->
              [a \in Accounts |->
                  IF a \in account_ids
                  THEN report_error(sts, errs, a, max_errors).statuses[a]
                  ELSE sts[a]],
          consecutive_errors |->
              [a \in Accounts |->
                  IF a \in account_ids
                  THEN report_error(sts, errs, a, max_errors).consecutive_errors[a]
                  ELSE errs[a]]]

\* as WorkerDone, with a failed task ending the worker's loop
WorkerDone_dies(w, success) ==
    [worker[w] EXCEPT !.pc = IF worker[w].running /\ success THEN "idle"
                             ELSE "stopped",
                      !.task = NoTask,
                      !.tasks_processed = @ + 1,
                      !.tasks_successful = IF success THEN @ + 1 ELSE @,
                      !.tasks_failed = IF success THEN @ ELSE @ + 1]

\* TradingWorker.run after _process_task returned: counters, task_done, loop test
WorkerDone(w, success) ==
    [worker[w] EXCEPT !.pc = IF worker[w].running THEN "idle" ELSE "stopped",
                      !.task = NoTask,
                      !.tasks_processed = @ + 1,
                      !.tasks_successful = IF success THEN @ + 1 ELSE @,
                      !.tasks_failed = IF success THEN @ ELSE @ + 1]

\* str(e) of the exception that left _execute_trading: raised by the trader
\* inside the try, or `No accounts found for IDs` (or random.randint on an
\* empty range) before it
ErrorText(in_try) == IF in_try THEN "trading error" ELSE "no accounts found"

\* as FailedRelease, without the release_immediately
FailedRelease_none(sts, account_ids) == sts

\* _process_task, `except Exception`: release_immediately(task.account_ids)
FailedRelease(sts, account_ids) == release_immediately(sts, account_ids)

\* _execute_trading ran to its end: release with cooldown, success reported
WorkerTaskSuccess(w) ==
    /\ worker[w].pc = "busy" /\ ~orch.cancelled
    /\ LET ids == worker[w].task.account_ids
           released == release_batch(statuses, ids, cooldown_seconds,
                                     cooldown_seconds, now)
           rep == ReportResult(released, consecutive_errors, ids, TRUE,
                               use_balanced_pool, max_consecutive_errors)
       IN /\ statuses' = rep.statuses
          /\ consecutive_errors' = rep.consecutive_errors
    /\ worker' = [worker EXCEPT ![w] = [WorkerDone(w, TRUE) EXCEPT
                                            !.result = TaskResult(TRUE, "none")]]
    /\ unfinished_tasks' = unfinished_tasks - 1
    /\ UNCHANGED <<poolConfig, now, apiVars, task_queue, max_queue_size,
                   batch_size_range, gen, orch>>
    /\ UNCHANGED traderVars

\* _execute_trading raised: inside its try (the finally releases with cooldown
\* first) or before it (no account resolved); _process_task then releases
\* immediately and reports the error
WorkerTaskError(w, in_try) ==
    /\ worker[w].pc = "busy" /\ ~orch.cancelled
    /\ LET ids == worker[w].task.account_ids
           after_finally == IF in_try
                            THEN release_batch(statuses, ids, cooldown_seconds,
                                               cooldown_seconds, now)
                            ELSE statuses
           released == FailedRelease(after_finally, ids)
           rep == ReportResult(released, consecutive_errors, ids, FALSE,
                               use_balanced_pool, max_consecutive_errors)
       IN /\ statuses' = rep.statuses
          /\ consecutive_errors' = rep.consecutive_errors
    /\ worker' = [worker EXCEPT ![w] = [WorkerDone(w, FALSE) EXCEPT
                                  !.result = TaskResult(FALSE, ErrorText(in_try))]]
    /\ unfinished_tasks' = unfinished_tasks - 1
    /\ UNCHANGED <<poolConfig, now, apiVars, task_queue, max_queue_size,
                   batch_size_range, gen, orch>>
    /\ UNCHANGED traderVars

\* the task running BatchOrchestrator.run is cancelled: gather cancels the
\* generator, the stats task and every worker
CancelAll ==
    /\ orch.pc = "running" /\ ~orch.cancelled
    /\ orch' = [orch EXCEPT !.cancelled = TRUE]
    /\ gen' = [gen EXCEPT !.pc = IF @ = "done" THEN @ ELSE "cancelled"]
    /\ UNCHANGED <<poolVars, apiVars, task_queue, unfinished_tasks, max_queue_size,
                   batch_size_range, worker>>
    /\ UNCHANGED traderVars

\* as CancelledRelease, without the release_immediately
CancelledRelease_none(sts, account_ids, cooldown, t) ==
    release_batch(sts, account_ids, cooldown, cooldown, t)

\* _process_task, `except asyncio.CancelledError` (after the finally of
\* _execute_trading), then the error leaves TradingWorker.run
CancelledRelease(sts, account_ids, cooldown, t) ==
    release_immediately(release_batch(sts, account_ids, cooldown, cooldown, t),
                        account_ids)

WorkerCancelled(w) ==
    /\ orch.cancelled /\ worker[w].pc \in {"idle", "busy"}
    /\ statuses' = IF worker[w].pc = "busy"
                   THEN CancelledRelease(statuses, worker[w].task.account_ids,
                                         cooldown_seconds, now)
                   ELSE statuses
    /\ worker' = [worker EXCEPT ![w].pc = "cancelled"]
    /\ UNCHANGED <<consecutive_errors, poolConfig, now, apiVars, task_queue,
                   unfinished_tasks, max_queue_size, batch_size_range, gen, orch>>
    /\ UNCHANGED traderVars

\* BatchOrchestrator._stats_loop: _print_stats reads get_pool_stats
PrintStats ==
    /\ orch.pc = "running" /\ ~orch.cancelled
    /\ statuses' = update_cooldowns(statuses, now)
    /\ UNCHANGED <<consecutive_errors, poolConfig, now, apiVars, orchVars>>
    /\ UNCHANGED traderVars

\* BatchOrchestrator.run
OrchRun ==
    /\ orch.pc = "constructed"
    /\ orch' = [orch EXCEPT !.running = TRUE, !.pc = "running"]
    /\ gen' = [gen EXCEPT !.running = TRUE, !.pc = "sleep"]
    /\ worker' = [w \in Workers |-> [worker[w] EXCEPT !.running = TRUE, !.pc = "idle"]]
    /\ UNCHANGED <<poolVars, apiVars, task_queue, unfinished_tasks, max_queue_size,
                   batch_size_range>>
    /\ UNCHANGED traderVars

\* as ShutdownRuns, without the `if not self.running: return` guard
ShutdownRuns_always(running) == TRUE

\* BatchOrchestrator.shutdown: `if not self.running: return`
ShutdownRuns(running) == running

\* as ShutdownBegin, without the generator.stop() taking effect
ShutdownBegin_nostop ==
    /\ orch' = [orch EXCEPT !.running = FALSE, !.pc = "drain",
                            !.shutdown_calls = @ + 1,
                            !.steps = Append(@, "generator_stop")]
    /\ UNCHANGED gen

\* BatchOrchestrator.shutdown up to the drain wait: running cleared,
\* generator.stop()
ShutdownBegin ==
    /\ orch' = [orch EXCEPT !.running = FALSE, !.pc = "drain",
                            !.shutdown_calls = @ + 1,
                            !.steps = Append(@, "generator_stop")]
    /\ gen' = [gen EXCEPT !.running = FALSE]

\* a call of BatchOrchestrator.shutdown: from the finally of run() once
\* every cancelled child has finished, by the owner while the orchestrator
\* runs, while an earlier call is waiting, or after run() has returned
\* (main.py).  The argument is read where the call uses it, in CloseStart.
Shutdown ==
    /\ orch.pc # "constructed"
    /\ orch.shutdown_calls < MaxShutdownCalls
    /\ (orch.cancelled /\ orch.pc = "running")
          => \A w \in Workers : worker[w].pc = "cancelled"
    /\ IF ShutdownRuns(orch.running)
       THEN ShutdownBegin
       ELSE /\ orch' = [orch EXCEPT !.shutdown_calls = @ + 1]
            /\ UNCHANGED gen
    /\ UNCHANGED <<poolVars, apiVars, task_queue, unfinished_tasks, max_queue_size,
                   batch_size_range, worker>>
    /\ UNCHANGED traderVars

\* as AfterDrain, without the worker.stop() loop
AfterDrain_nostop(how) ==
    /\ orch' = [orch EXCEPT !.pc = "stats_wait", !.drain = how,
                            !.steps = @ \o <<"drain_end", "stats_cancel">>]
    /\ UNCHANGED <<poolVars, apiVars, task_queue, unfinished_tasks, max_queue_size,
                   batch_size_range, gen, worker>>
    /\ UNCHANGED traderVars

\* the drain wait is over: worker.stop() for every worker, stats_task.cancel(),
\* then `await self.stats_task`
AfterDrain(how) ==
    /\ orch' = [orch EXCEPT !.pc = "stats_wait", !.drain = how,
                            !.steps = @ \o <<"drain_end", "workers_stop",
                                             "stats_cancel">>]
    /\ worker' = [w \in Workers |-> [worker[w] EXCEPT !.running = FALSE]]
    /\ UNCHANGED <<poolVars, apiVars, task_queue, unfinished_tasks, max_queue_size,
                   batch_size_range, gen>>
    /\ UNCHANGED traderVars

\* asyncio.wait_for(self.task_queue.join(), timeout=30.0): join returned
DrainComplete ==
    /\ orch.pc = "drain" /\ unfinished_tasks = 0
    /\ AfterDrain("drained")

\* as DrainTimeout, with a wait that has no timeout
DrainTimeout_never ==
    /\ FALSE
    /\ UNCHANGED vars

\* asyncio.wait_for(self.task_queue.join(), timeout=30.0): TimeoutError
DrainTimeout ==
    /\ orch.pc = "drain" /\ unfinished_tasks > 0
    /\ AfterDrain("timeout")

\* as CloseStepCalls, with the argument ignored
CloseStepCalls_always(close_positions) == "close_all_positions"

\* shutdown(): `if close_positions:` picks trader.close_all_positions, else
\* trader._mass_cancel_all_accounts
CloseStepCalls(close_positions) ==
    IF close_positions THEN "close_all_positions" ELSE "mass_cancel"

\* the stats task has ended (CancelledError caught); the close step starts:
\* trader.close_all_positions(timeout=60.0) when the call's close_positions
\* is true (the default, which run() and main.py use), else
\* trader._mass_cancel_all_accounts()
CloseStart(close_positions) ==
    /\ orch.pc = "stats_wait"
    /\ orch.cancelled => close_positions
    /\ orch' = [orch EXCEPT !.pc = "closing",
                            !.close_positions = close_positions,
                            !.close_calls =
                                IF CloseStepCalls(close_positions) = "mass_cancel"
                                THEN @ ELSE @ + 1,
                            !.cancel_calls =
                                IF CloseStepCalls(close_positions) = "mass_cancel"
                                THEN @ + 1 ELSE @,
                            !.steps = Append(@, CloseStepCalls(close_positions))]
    /\ UNCHANGED <<poolVars, apiVars, task_queue, unfinished_tasks, max_queue_size,
                   batch_size_range, gen, worker>>
    /\ UNCHANGED traderVars

\* as CloseStepContained, with the exception leaving shutdown()
CloseStepContained_propagates(raised) == ~raised

\* shutdown(): `except Exception as e: logger.error(...)` around the close step
CloseStepContained(raised) == TRUE

\* the close step returned or raised; when the exception is contained,
\* _print_stats runs and shutdown() returns
ShutdownFinish(raised) ==
    /\ orch.pc = "closing"
    /\ IF CloseStepContained(raised)
       THEN /\ orch' = [orch EXCEPT !.pc = "done", !.raised = raised,
                                    !.stats_printed = @ + 1,
                                    !.steps = Append(@, "final_stats")]
            /\ statuses' = update_cooldowns(statuses, now)
       ELSE /\ orch' = [orch EXCEPT !.pc = "failed", !.raised = raised]
            /\ UNCHANGED statuses
    /\ UNCHANGED <<consecutive_errors, poolConfig, now, apiVars, task_queue,
                   unfinished_tasks, max_queue_size, batch_size_range, gen, worker>>
    /\ UNCHANGED traderVars

\* time.time() advances
Tick ==
    /\ now < MaxClock
    /\ now' = now + 1
    /\ UNCHANGED <<statuses, consecutive_errors, poolConfig, apiVars, orchVars>>
    /\ UNCHANGED traderVars

Init ==
    /\ statuses = InitStatuses
    /\ consecutive_errors = [a \in Accounts |-> 0]
    /\ use_balanced_pool \in BOOLEAN
    /\ cooldown_seconds = 1
    /\ max_consecutive_errors = MaxErrors
    /\ now = 1
    /\ last = Other
    /\ relDue = [a \in Accounts |-> None]
    /\ hist = NoCalls
    /\ \E cfg \in 1..MaxQueue : OrchConstructed(cfg, <<1, MaxBatch>>)
    /\ TraderIdle

Next ==
    \/ OrchRun
    \/ GenerateBatch
    \/ GenExit
    \/ \E w \in Workers : WorkerGet(w)
    \/ \E w \in Workers : WorkerExit(w)
    \/ \E w \in Workers : WorkerTaskSuccess(w)
    \/ \E w \in Workers, in_try \in BOOLEAN : WorkerTaskError(w, in_try)
    \/ CancelAll
    \/ \E w \in Workers : WorkerCancelled(w)
    \/ PrintStats
    \/ Shutdown
    \/ DrainComplete
    \/ DrainTimeout
    \/ \E close_positions \in BOOLEAN : CloseStart(close_positions)
    \/ \E raised \in BOOLEAN : ShutdownFinish(raised)
    \/ Tick

Spec == Init /\ [][Next]_vars

\* the drain wait of shutdown() under the scheduling asyncio guarantees: an
\* expired wait_for timer fires, a returned join resumes the caller, and the
\* bounded close step returns.  Workers get no fairness: they may stay stuck.
\* The orchestrator is configured as main.py configures it (balanced pool).
FairInit ==
    /\ Init
    /\ use_balanced_pool
    /\ max_queue_size = MaxQueue

FairSpec ==
    /\ FairInit /\ [][Next]_vars
    /\ WF_vars(DrainComplete)
    /\ WF_vars(DrainTimeout)
    /\ WF_vars(\E close_positions \in BOOLEAN : CloseStart(close_positions))
    /\ WF_vars(\E raised \in BOOLEAN : ShutdownFinish(raised))

\* the workers under the scheduling the event loop gives them: a worker
\* waiting in queue.get() receives a queued task, and every pipeline run
\* returns or raises.  The generator and shutdown() get no fairness.
WorkerFairSpec ==
    /\ FairInit /\ [][Next]_vars
    /\ WF_vars(\E w \in Workers : WorkerGet(w))
    /\ WF_vars(\E w \in Workers :
                  \/ WorkerTaskSuccess(w)
                  \/ \E in_try \in BOOLEAN : WorkerTaskError(w, in_try))

\* the generator under the scheduling the event loop gives it: the
\* asyncio.sleep of its loop returns, so the loop condition is read again.
\* Workers and shutdown() get no fairness.
GenFairSpec ==
    /\ FairInit /\ [][Next]_vars
    /\ WF_vars(GenExit)

\* the workers once stop() was called, under the scheduling the event loop
\* gives them: the one-second queue poll of a waiting worker times out, and
\* every pipeline run returns or raises.  The generator and shutdown() get
\* no fairness.
StopFairSpec ==
    /\ FairInit /\ [][Next]_vars
    /\ \A w \in Workers : WF_vars(WorkerExit(w))
    /\ \A w \in Workers :
          WF_vars(\/ WorkerTaskSuccess(w)
                  \/ \E in_try \in BOOLEAN : WorkerTaskError(w, in_try))

(***************************************************************************)
(* Properties of the orchestrator (Spec, FairSpec, WorkerFairSpec,          *)
(* GenFairSpec, StopFairSpec)                                              *)
(***************************************************************************)
\* the account sets of the tasks that are queued or being processed
QueuedSets == {<<"q", i>> : i \in 1..Len(task_queue)}
BusySets == {<<"w", w>> : w \in {x \in Workers : worker[x].pc = "busy"}}
AccountsOf(k) == IF k[1] = "q" THEN task_queue[k[2]].account_ids
                 ELSE worker[k[2]].task.account_ids

\* C1: at every moment the account sets of all tasks that are queued or being
\* processed are pairwise disjoint (no account is in two live tasks).
C1_MutualExclusion ==
    \A k1, k2 \in QueuedSets \cup BusySets :
        k1 # k2 => AccountsOf(k1) \cap AccountsOf(k2) = {}

C1_Witness ==
    /\ \E w \in Workers : worker[w].pc = "busy"
    /\ Len(task_queue) = 1
    /\ UNION {AccountsOf(k) : k \in QueuedSets \cup BusySets} = Accounts

\* C3: the generator never enqueues while the queue depth is at or above
\* max_queue_size, so the depth never exceeds it; a tick skipped for that
\* reason leaves the pool and tasks_generated unchanged.
C3_QueueBackpressure ==
    [][/\ Len(task_queue') > Len(task_queue)
            => Len(task_queue) < gen.max_queue_size
       /\ Len(task_queue') <= gen.max_queue_size
       /\ (GenerateBatch /\ Len(task_queue) >= gen.max_queue_size)
            => /\ UNCHANGED <<statuses, consecutive_errors, task_queue>>
               /\ gen'.tasks_generated = gen.tasks_generated]_vars

C3_Witness ==
    /\ gen.last = "full"
    /\ Len(task_queue) = gen.max_queue_size
    /\ Available(update_cooldowns(statuses, now)) # {}

\* C4: once shutdown() has begun its drain wait it always terminates: the
\* wait ends because every task was marked done or because the timeout
\* fired, and the remaining steps (worker stop, close or mass cancel, final
\* statistics) then run, also when workers are cancelled or stuck.
C4_GracefulDrain ==
    (orch.pc = "drain")
        ~> (/\ orch.pc = "done"
            /\ orch.drain \in {"drained", "timeout"}
            /\ \A w \in Workers : ~worker[w].running
            /\ orch.close_calls + orch.cancel_calls = 1
            /\ orch.stats_printed = 1)

C4_Witness ==
    /\ orch.pc = "done" /\ orch.drain = "timeout"
    /\ unfinished_tasks > 0
    /\ \E w \in Workers : worker[w].pc = "cancelled" /\ worker[w].task # NoTask

\* BatchGenerator.stop() has been called (by shutdown())
StopCalled == \E i \in 1..Len(orch.steps) : orch.steps[i] = "generator_stop"

\* C36: after the generator's stop() no step puts a task into the queue or
\* raises the generator's task count, and the generator's loop ends (it
\* reads the cleared flag after its sleep, or was cancelled with run()).
C36_GeneratorStops ==
    /\ [][StopCalled => /\ Len(task_queue') <= Len(task_queue)
                        /\ gen'.tasks_generated = gen.tasks_generated
                        /\ gen'.last = gen.last]_vars
    /\ StopCalled ~> (gen.pc \in {"done", "cancelled"})

C36_Witness ==
    /\ StopCalled /\ gen.pc = "done" /\ ~orch.cancelled
    /\ gen.tasks_generated > 0
    /\ task_queue # << >>

\* TradingWorker.stop() has been called on every worker (by shutdown())
WorkersStopCalled ==
    \E i \in 1..Len(orch.steps) : orch.steps[i] = "workers_stop"

\* C37: after stop() a worker never comes back to waiting for a task, so it
\* dequeues at most one more; a busy worker leaves its loop in the step that
\* ends its task, which is counted and marked done; and every worker
\* leaves its loop (an idle one when its poll times out).
C37_WorkerStops ==
    /\ [][WorkersStopCalled =>
            \A w \in Workers :
               /\ worker'[w].pc = "idle" => worker[w].pc = "idle"
               /\ (worker[w].pc = "busy" /\ worker'[w].pc # "busy")
                     => /\ worker'[w].pc = "stopped"
                        /\ worker'[w].tasks_processed = worker[w].tasks_processed + 1
                        /\ unfinished_tasks' = unfinished_tasks - 1]_vars
    /\ \A w \in Workers :
          WorkersStopCalled ~> (worker[w].pc \in {"stopped", "cancelled"})

C37_Witness ==
    /\ WorkersStopCalled /\ ~orch.cancelled
    /\ orch.drain = "timeout" /\ unfinished_tasks = 0
    /\ \A w \in Workers : worker[w].pc = "stopped"
    /\ \E w \in Workers : worker[w].tasks_processed = 0

\* C10: when a worker is cancelled while it processes a task, every account
\* of that task is available with its release time cleared by the time the
\* cancellation leaves the worker.
C10_CancellationRelease ==
    [][\A w \in Workers :
          (worker[w].pc = "busy" /\ worker'[w].pc = "cancelled")
            => \A a \in worker[w].task.account_ids :
                  /\ statuses'[a].status = "available"
                  /\ statuses'[a].release_time = None]_vars

C10_Witness ==
    \E w \in Workers :
        /\ worker[w].pc = "cancelled"
        /\ worker[w].task # NoTask
        /\ \A a \in worker[w].task.account_ids : statuses[a].status = "available"

\* C11: once a shutdown reached through global cancellation has completed,
\* no account of the pool is in_trade, the accounts of tasks still waiting in
\* the queue included.
C11_NoStrandedAccounts ==
    (orch.pc = "done" /\ orch.cancelled)
        => \A a \in Accounts : statuses[a].status # "in_trade"

\* C12: when processing a task raises a non-cancellation exception, the
\* worker records a failed Task Result carrying the error text, counts the
\* task as processed and failed, marks the queue item done, and every account
\* of the task ends available with no release time, or disabled, which happens
\* exactly when the balanced pool's error count of the account reached
\* max_consecutive_errors with this error.
C12_FailedTask ==
    [][\A w \in Workers :
          (worker[w].pc = "busy" /\ ~worker'[w].result.success
             /\ worker'[w].tasks_processed = worker[w].tasks_processed + 1)
            => /\ worker'[w].result.error \in {ErrorText(TRUE), ErrorText(FALSE)}
               /\ worker'[w].tasks_failed = worker[w].tasks_failed + 1
               /\ worker'[w].tasks_successful = worker[w].tasks_successful
               /\ unfinished_tasks' = unfinished_tasks - 1
               /\ worker'[w].pc = IF worker[w].running THEN "idle" ELSE "stopped"
               /\ \A a \in worker[w].task.account_ids :
                     LET reached == /\ use_balanced_pool
                                    /\ consecutive_errors'[a] >= max_consecutive_errors
                     IN /\ statuses'[a].status =
                              IF reached THEN "disabled" ELSE "available"
                        /\ statuses'[a].release_time = None]_vars

C12_Witness ==
    /\ \E w \in Workers : /\ worker[w].tasks_failed = 2
                          /\ worker[w].result = TaskResult(FALSE, ErrorText(TRUE))
                          /\ worker[w].pc = "idle"
    /\ \E a, b \in Accounts : /\ statuses[a].status = "disabled"
                              /\ statuses[b].status = "available"
                              /\ consecutive_errors[b] = 1
    /\ unfinished_tasks = 0

\* task t has been enqueued and is still waiting in the queue
Enqueued(t) == \E i \in 1..Len(task_queue) : task_queue[i].task_id = t

\* task t was dequeued and marked done (task_done() called for it)
MarkedDone(t) ==
    /\ t <= gen.tasks_generated
    /\ ~Enqueued(t)
    /\ \A w \in Workers : worker[w].task.task_id # t

\* stop() was called on the workers, or they have been cancelled
WorkersStopping == orch.cancelled \/ \A w \in Workers : ~worker[w].running

\* C13: a worker's loop ends only after stop() or cancellation, also after a
\* failed task; so, every pipeline run terminating, each enqueued task is
\* eventually dequeued and marked done unless the workers are stopped or
\* cancelled first.
C13_WorkerLoop ==
    /\ [][\A w \in Workers :
             /\ (worker'[w].pc = "stopped" /\ worker[w].pc # "stopped")
                   => ~worker[w].running
             /\ (worker'[w].pc = "cancelled" /\ worker[w].pc # "cancelled")
                   => orch.cancelled]_vars
    /\ \A t \in 1..MaxTasks : Enqueued(t) ~> (MarkedDone(t) \/ WorkersStopping)

C13_Witness ==
    /\ MarkedDone(1) /\ MarkedDone(2)
    /\ ~WorkersStopping
    /\ \E w \in Workers : /\ worker[w].tasks_failed = 1
                          /\ worker[w].tasks_successful = 1
                          /\ worker[w].result.success

\* C14: a call of shutdown() made when an earlier call has already begun
\* (whether that one has returned or is still waiting) takes none of the
\* shutdown steps: nothing but the count of calls changes; so the close step
\* (close_all_positions or the mass cancel) and the final statistics run at
\* most once per orchestrator run.
C14_ShutdownIdempotent ==
    [][/\ (orch'.shutdown_calls = orch.shutdown_calls + 1 /\ orch.shutdown_calls >= 1)
            => /\ orch' = [orch EXCEPT !.shutdown_calls = @ + 1]
               /\ UNCHANGED <<poolVars, task_queue, unfinished_tasks, gen, worker>>
       /\ orch'.close_calls <= 1
       /\ orch'.close_calls + orch'.cancel_calls <= 1
       /\ orch'.stats_printed <= 1]_vars

C14_Witness ==
    /\ orch.shutdown_calls = 2
    /\ orch.pc = "done"
    /\ orch.close_calls = 1
    /\ orch.stats_printed = 1
    /\ Len(orch.steps) = 6

\* the steps of shutdown() in the order of its code
ShutdownSteps(close_positions) ==
    <<"generator_stop", "drain_end", "workers_stop", "stats_cancel",
      CloseStepCalls(close_positions), "final_stats">>

\* C15: the steps of every shutdown occur in the order generator stopped,
\* drain wait ended (drained or timed out), workers told to stop, stats task
\* cancelled, close-all-positions or mass cancel, final statistics; no worker
\* is told to stop before the drain wait has ended, and the close step never
\* starts before every worker has been told to stop.
C15_ShutdownOrder ==
    /\ orch.steps = SubSeq(ShutdownSteps(orch.close_positions), 1, Len(orch.steps))
    /\ orch.drain # "none" => ~gen.running
    /\ (\E w \in Workers : worker[w].pc # "created" /\ ~worker[w].running)
          => orch.drain # "none"
    /\ orch.close_calls + orch.cancel_calls > 0
          => /\ \A w \in Workers : ~worker[w].running
             /\ orch.drain # "none"
    /\ orch.stats_printed > 0 => orch.close_calls + orch.cancel_calls > 0

C15_Witness ==
    /\ orch.pc = "done"
    /\ orch.steps = ShutdownSteps(FALSE)
    /\ orch.drain = "drained"
    /\ \E w \in Workers : worker[w].tasks_processed > 0

\* C17: when the close step of shutdown() (close_all_positions or the mass
\* cancel) raises, the exception is contained: the final statistics are still
\* emitted and shutdown returns normally, as it does when the step returns.
C17_CloseErrorContained ==
    [][(orch.pc = "closing" /\ orch'.pc # "closing")
          => /\ orch'.pc = "done"
             /\ orch'.stats_printed = orch.stats_printed + 1
             /\ orch'.steps = Append(orch.steps, "final_stats")]_vars

C17_Witness ==
    /\ orch.raised
    /\ orch.pc = "done"
    /\ orch.stats_printed = 1
    /\ orch.steps = ShutdownSteps(TRUE)

\* C24: from its selection until its release every account of a task that is
\* queued or being processed is in_trade (so not counted available); and the
\* step in which a worker finishes a task without exception leaves each of
\* the task's accounts in cooldown with release_time = now + the configured
\* cooldown, its trades_count one higher and its error count 0.
C24_SuccessfulTask ==
    [][/\ \A k \in QueuedSets \cup BusySets :
             \A a \in AccountsOf(k) : statuses[a].status = "in_trade"
       /\ \A w \in Workers :
             (/\ worker[w].pc = "busy" /\ worker'[w].pc # "busy"
              /\ worker'[w].tasks_successful = worker[w].tasks_successful + 1)
                => \A a \in worker[w].task.account_ids :
                      /\ statuses'[a] =
                            AccountStatus("cooldown", now + cooldown_seconds,
                                          statuses[a].trades_count + 1)
                      /\ consecutive_errors'[a] = 0]_vars

C24_Witness ==
    /\ use_balanced_pool
    /\ \E w \in Workers :
          /\ worker[w].result.success
          /\ worker[w].tasks_successful = 1 /\ worker[w].tasks_failed = 1
    /\ \E a \in Accounts :
          /\ statuses[a] = AccountStatus("cooldown", now + cooldown_seconds, 2)
          /\ consecutive_errors[a] = 0

\* the tasks the workers hold between queue.get() and the statistics update
InFlight == {w \in Workers : worker[w].pc = "busy"}

RECURSIVE TasksProcessed(_)
TasksProcessed(ws) ==
    IF ws = {} THEN 0
    ELSE LET w == CHOOSE x \in ws : TRUE
         IN worker[w].tasks_processed + TasksProcessed(ws \ {w})

\* C29: while nothing has been cancelled, every task the generator has made
\* is in the queue, held by exactly one worker, or counted once in one
\* worker's tasks_processed: tasks_generated = queue depth + tasks in flight
\* + the sum of tasks_processed, no two of the queued and held tasks are the
\* same, and each worker's tasks_processed = tasks_successful + tasks_failed.
C29_TaskConservation ==
    ~orch.cancelled
    => /\ gen.tasks_generated
            = Len(task_queue) + Cardinality(InFlight) + TasksProcessed(Workers)
       /\ Cardinality({task_queue[i].task_id : i \in 1..Len(task_queue)}
                      \cup {worker[w].task.task_id : w \in InFlight})
            = Len(task_queue) + Cardinality(InFlight)
       /\ \A w \in Workers :
             worker[w].tasks_processed
                = worker[w].tasks_successful + worker[w].tasks_failed

C29_Witness ==
    /\ ~orch.cancelled
    /\ gen.tasks_generated = MaxTasks
    /\ \E v, w \in Workers :
          /\ worker[v].pc = "busy"
          /\ worker[w].pc = "idle"
          /\ worker[w].tasks_processed = 1 /\ worker[w].tasks_failed = 1

\* the orchestrator with max_queue_size given (0 makes the queue unbounded
\* and the generator's check always true) or left out of the config (None),
\* so that the queue and the generator take their own defaults
EnqueueInit ==
    /\ statuses = InitStatuses
    /\ consecutive_errors = [a \in Accounts |-> 0]
    /\ use_balanced_pool = TRUE
    /\ cooldown_seconds = 1
    /\ max_consecutive_errors = MaxErrors
    /\ now = 1
    /\ last = Other
    /\ relDue = [a \in Accounts |-> None]
    /\ hist = NoCalls
    /\ \E cfg \in {None} \cup 0..MaxQueue : OrchConstructed(cfg, <<1, MaxBatch>>)
    /\ TraderIdle

EnqueueNext ==
    \/ OrchRun
    \/ GenerateBatch
    \/ \E w \in Workers : WorkerGet(w)
    \/ \E w \in Workers : WorkerTaskSuccess(w)
    \/ \E w \in Workers, in_try \in BOOLEAN : WorkerTaskError(w, in_try)
    \/ Tick

EnqueueSpec == EnqueueInit /\ [][EnqueueNext]_vars

RECURSIVE Pow10(_)
Pow10(n) == IF n = 0 THEN 1 ELSE 10 * Pow10(n - 1)

RECURSIVE Digits(_)
Digits(n) == IF n < 10 THEN 1 ELSE 1 + Digits(n \div 10)

\* a total has one decimal, its half two, a share WeightDigits more
UnitDigits == 2 + WeightDigits
One == Pow10(UnitDigits)

\* decimal context: Prec significant digits, ROUND_HALF_EVEN
RoundCtx(n) ==
    LET a == IF n < 0 THEN -n ELSE n
        d == Digits(a)
        q == IF d > Prec THEN Pow10(d - Prec) ELSE 1
        lo == a \div q
        rem == a % q
        up == (2 * rem > q) \/ (2 * rem = q /\ lo % 2 = 1)
        r == (IF up THEN lo + 1 ELSE lo) * q
    IN IF n < 0 THEN -r ELSE r

DecAdd(a, b) == RoundCtx(a + b)
DecSub(a, b) == RoundCtx(a - b)
\* Decimal * Decimal(str(w)), w counted in 10^-WeightDigits
DecMul(a, w) == RoundCtx((a * w) \div Pow10(WeightDigits))
\* Decimal / Decimal('2')
DecHalf(a) == RoundCtx(a \div 2)

\* Python sum() over Decimals: 0 + x1 + x2 + ..., left to right
RECURSIVE DecSumFrom(_, _)
DecSumFrom(acc, xs) ==
    IF xs = << >> THEN acc ELSE DecSumFrom(DecAdd(acc, Head(xs)), Tail(xs))

DecSum(xs) == DecSumFrom(0, xs)

RECURSIVE ExactSum(_)
ExactSum(xs) == IF xs = << >> THEN 0 ELSE Head(xs) + ExactSum(Tail(xs))

\* order_size_variation[1] and the weight floor, in tenths
max_var == 4
MinWeight == 3

\* weight = max(0.3, 1.0 + random.uniform(-max_var, max_var)), in tenths
RawWeights == {IF 10 + v < MinWeight THEN MinWeight ELSE 10 + v :
                   v \in {-max_var, max_var \div 2, max_var}}

\* Decimal(str(w / total_weight)): the float quotient as the decimal str() prints
NormalizedWeight(w, total_weight) ==
    (2 * w * Pow10(WeightDigits) + total_weight) \div (2 * total_weight)

\* as distribute_amount_randomly, without the correction of the last share
distribute_amount_randomly_uncorrected(total, weights) ==
    IF Len(weights) = 1
    THEN <<total>>
    ELSE LET total_weight == ExactSum(weights)
         IN [i \in 1..Len(weights) |->
                DecMul(total, NormalizedWeight(weights[i], total_weight))]

distribute_amount_randomly(total, weights) ==
    IF Len(weights) = 1
    THEN <<total>>
    ELSE LET n == Len(weights)
             total_weight == ExactSum(weights)
             amounts == [i \in 1..n |->
                            DecMul(total, NormalizedWeight(weights[i], total_weight))]
         IN [amounts EXCEPT ![n] = DecSub(total, DecSum(SubSeq(amounts, 1, n - 1)))]

WeightLists == UNION {[1..n -> RawWeights] : n \in 1..MaxSide}

\* _open_positions: total, halves and the shares of both sides
OpenPositionsSizes ==
    /\ dist.pc = "input"
    /\ LET half == DecHalf(dist.total)
       IN dist' = [dist EXCEPT
                     !.pc = "sized",
                     !.half = half,
                     !.long_sizes = distribute_amount_randomly(half, dist.long_raw),
                     !.short_sizes = distribute_amount_randomly(half, dist.short_raw)]
    /\ UNCHANGED <<poolVars, apiVars, orchVars, opn, cls, bcls, closeall, trade,
                   orderbook_cache>>

ShareInit ==
    /\ Constructed
    /\ \E t \in MinTotal..MaxTotal, lw \in WeightLists, sw \in WeightLists :
          dist = [DistIdle EXCEPT !.pc = "input", !.total = t * (One \div 10),
                                  !.long_raw = lw, !.short_raw = sw]
    /\ opn = OpenIdle
    /\ cls = CloseIdle
    /\ bcls = BatchCloseIdle
    /\ closeall = CloseAllIdle
    /\ trade = TradeIdle
    /\ orderbook_cache = OrderBookCache_init

ShareNext == OpenPositionsSizes

ShareSpec == ShareInit /\ [][ShareNext]_vars

max_open_retries == 5
max_close_retries == 5

\* as MoreAttempts, with <= for <
MoreAttempts_le(attempt, max_retries) == attempt <= max_retries

\* `for attempt in range(max_retries)`
MoreAttempts(attempt, max_retries) == attempt < max_retries

\* the ways one attempt fails: cancel_all_orders raises; no bid/ask (continue);
\* place_limit_order raises; the order is not executed in time and no
\* position shows after its cancel; cancel_order or get_positions raises;
\* cancel_order returns False (the client caught the error); the order came
\* back without an id, so that no cancel_order is called
OpenFailures == {"cancel_all_raises", "no_price", "place_raises", "not_filled",
                 "cancel_order_raises", "get_positions_raises",
                 "cancel_order_fails", "unknown_id"}

\* the failures that happen before place_limit_order is called
BeforeOrder == {"cancel_all_raises", "no_price"}

\* the failures that leave the order of the attempt on the exchange
NotCancelled == {"cancel_order_raises", "cancel_order_fails", "unknown_id"}

\* whether an opening order rests on the exchange after a failed attempt:
\* the cancel_all_orders at its start removes the earlier ones unless it
\* raises, and the attempt's own order stays when it was not cancelled
LiveAfter(how, live) ==
    IF how = "cancel_all_raises" THEN live ELSE how \in NotCancelled

\* one loop iteration that does not open the position
OpenAttemptFails(how) ==
    /\ opn.pc = "loop"
    /\ MoreAttempts(opn.attempt, max_open_retries)
    /\ opn.attempt < opn.fails
    /\ opn' = [opn EXCEPT !.attempt = @ + 1,
                          !.live = LiveAfter(how, @),
                          !.orders = IF how \in BeforeOrder THEN @ ELSE @ + 1]
    /\ UNCHANGED <<poolVars, apiVars, orchVars, dist, cls, bcls, closeall, trade,
                   orderbook_cache>>

\* one loop iteration that opens it: _wait_for_order_execution returns True,
\* or the position shows after the cancel; `return True`
OpenAttemptSucceeds(during_cancel) ==
    /\ opn.pc = "loop"
    /\ MoreAttempts(opn.attempt, max_open_retries)
    /\ opn.attempt >= opn.fails
    /\ opn' = [opn EXCEPT !.pc = "done", !.orders = @ + 1, !.result = TRUE,
                          !.live = FALSE,
                          !.how = IF during_cancel THEN "during_cancel"
                                  ELSE "executed"]
    /\ UNCHANGED <<poolVars, apiVars, orchVars, dist, cls, bcls, closeall, trade,
                   orderbook_cache>>

\* the loop ran out: `return False`
OpenExhausted ==
    /\ opn.pc = "loop"
    /\ ~MoreAttempts(opn.attempt, max_open_retries)
    /\ opn' = [opn EXCEPT !.pc = "done", !.result = FALSE]
    /\ UNCHANGED <<poolVars, apiVars, orchVars, dist, cls, bcls, closeall, trade,
                   orderbook_cache>>

\* _open_position once the limit routine has returned: it returns on True
\* and raises on False
OpenPositionLimitResult ==
    /\ opn.pc = "done"
    /\ opn' = [opn EXCEPT !.pc = IF opn.result THEN "returned" ELSE "raised"]
    /\ UNCHANGED <<poolVars, apiVars, orchVars, dist, cls, bcls, closeall, trade,
                   orderbook_cache>>

\* _open_position with order_type MARKET: one place_market_order call; it
\* returns once the order is placed (position confirmed or not) and raises
\* when get_market_stats or the order raise
OpenPositionMarket(outcome) ==
    /\ opn.pc = "market"
    /\ opn' = [opn EXCEPT
          !.pc = IF outcome = "placed" THEN "returned" ELSE "raised",
          !.market_orders = IF outcome = "stats_raises" THEN @ ELSE @ + 1]
    /\ UNCHANGED <<poolVars, apiVars, orchVars, dist, cls, bcls, closeall, trade,
                   orderbook_cache>>

OpenInit ==
    /\ Constructed
    /\ dist = DistIdle
    /\ \E n \in 0..MaxFails, fallback \in BOOLEAN :
          \/ opn = [OpenIdle EXCEPT !.pc = "loop", !.fails = n,
                                    !.use_market_fallback = fallback]
          \/ /\ n = 0
             /\ opn = [OpenIdle EXCEPT !.pc = "market", !.order_type = "MARKET",
                                       !.use_market_fallback = fallback]
    /\ cls = CloseIdle
    /\ bcls = BatchCloseIdle
    /\ closeall = CloseAllIdle
    /\ trade = TradeIdle
    /\ orderbook_cache = OrderBookCache_init

OpenNext ==
    \/ \E how \in OpenFailures : OpenAttemptFails(how)
    \/ \E during_cancel \in BOOLEAN : OpenAttemptSucceeds(during_cancel)
    \/ OpenExhausted
    \/ OpenPositionLimitResult
    \/ \E outcome \in {"stats_raises", "order_raises", "placed"} :
          OpenPositionMarket(outcome)

OpenSpec == OpenInit /\ [][OpenNext]_vars

\* C6: against an exchange that makes an account's open attempt fail N times
\* and then succeed, the limit open routine reports success if and only if
\* N < max_open_retries, and it never places more than max_open_retries
\* opening orders for the account.
C6_OpenRetryBound ==
    /\ opn.orders <= max_open_retries
    /\ opn.pc = "done" => (opn.result <=> opn.fails < max_open_retries)

C6_Witness ==
    /\ opn.pc = "done"
    /\ opn.fails = max_open_retries
    /\ opn.orders = max_open_retries
    /\ ~opn.result

\* C23: when a limit-mode open has used up max_open_retries attempts and
\* market fallback is enabled, the position is opened by a market order and
\* the open is reported as done.
C23_OpenMarketFallback ==
    (/\ opn.pc \in {"returned", "raised"}
     /\ opn.order_type = "LIMIT" /\ opn.use_market_fallback
     /\ opn.attempt = max_open_retries /\ ~opn.result)
        => opn.market_orders = 1 /\ opn.pc = "returned"

\* C39: when a limit-mode open is reported as failed, no opening order of
\* the account is left resting on the exchange.
C39_NoLiveOrderAfterFailure ==
    (opn.pc = "raised" /\ opn.order_type = "LIMIT") => ~opn.live

(***************************************************************************)
(* batch_trader.py: _close_position_with_limit_retry (per-account close)    *)
(* and _close_positions_batch (CloseSpec).                                  *)
(***************************************************************************)
\* as CloseAttemptsLeft, with <= for <
CloseAttemptsLeft_le(attempt, max_retries) == attempt <= max_retries

\* `for attempt in range(max_retries)`
CloseAttemptsLeft(attempt, max_retries) == attempt < max_retries

\* one iteration of the per-account close loop.  Outcomes: an API call before
\* the order raises; get_positions shows no position (return True); no
\* bid/ask; place_limit_order raises; the order fills in time (return True,
\* or the cancel_all_orders after it raises); it does not fill; it fills
\* only after the wait gave up
CloseOutcomes == {"api_raises", "no_position", "no_price", "place_raises",
                  "filled", "filled_cancel_raises", "not_filled", "late_fill"}

CloseAttempt(outcome) ==
    /\ cls.pc = "loop"
    /\ CloseAttemptsLeft(cls.attempt, max_close_retries)
    /\ outcome = "no_position" <=> (~cls.position /\ outcome # "api_raises")
    /\ cls' = [cls EXCEPT
          !.attempt = IF outcome \in {"no_position", "filled"} THEN @ ELSE @ + 1,
          !.limit_orders = IF outcome \in {"api_raises", "no_position", "no_price"}
                           THEN @ ELSE @ + 1,
          !.position = IF outcome \in {"filled", "filled_cancel_raises", "late_fill"}
                       THEN FALSE ELSE @,
          !.result = outcome \in {"no_position", "filled"},
          !.cancel_after_close = outcome \in {"no_position", "filled"},
          !.pc = IF outcome \in {"no_position", "filled"} THEN "done" ELSE @]
    /\ UNCHANGED <<poolVars, apiVars, orchVars, dist, opn, bcls, closeall, trade,
                   orderbook_cache>>

\* what the fallback's get_positions did
QueryOf(outcome) ==
    CASE outcome = "query_raises" -> "raised"
      [] outcome = "no_position" -> "empty"
      [] OTHER -> "position"

\* the outcomes in which place_market_order(reduce_only=True) is called
MarketCalled == {"market_closed", "market_not_closed", "market_raises"}

\* after the loop, use_market_fallback set.  Outcomes: get_positions raises
\* (return False); it shows no position (return True); place_market_order
\* succeeds and the position closes or stays (return True); place_market_order
\* or the cancel_all_orders after it raises (return False)
FallbackOutcomes == {"query_raises", "no_position"} \cup MarketCalled

CloseFallback(outcome) ==
    /\ cls.pc = "loop"
    /\ ~CloseAttemptsLeft(cls.attempt, max_close_retries)
    /\ cls.use_market_fallback
    /\ outcome = "no_position" <=> (~cls.position /\ outcome # "query_raises")
    /\ cls' = [cls EXCEPT
          !.pc = "done",
          !.fallbacks = @ + 1,
          !.open_at_fallback = cls.position,
          !.query = QueryOf(outcome),
          !.market_orders = IF outcome \in MarketCalled THEN @ + 1 ELSE @,
          !.market_reduce_only = outcome \in MarketCalled,
          !.position = IF outcome = "market_closed" THEN FALSE ELSE @,
          !.result = outcome \in {"no_position", "market_closed", "market_not_closed"},
          !.cancel_after_close =
               outcome \in {"no_position", "market_closed", "market_not_closed"}]
    /\ UNCHANGED <<poolVars, apiVars, orchVars, dist, opn, bcls, closeall, trade,
                   orderbook_cache>>

\* after the loop, use_market_fallback unset: `return False`
CloseNoFallback ==
    /\ cls.pc = "loop"
    /\ ~CloseAttemptsLeft(cls.attempt, max_close_retries)
    /\ ~cls.use_market_fallback
    /\ cls' = [cls EXCEPT !.pc = "done", !.open_at_fallback = cls.position,
                          !.result = FALSE]
    /\ UNCHANGED <<poolVars, apiVars, orchVars, dist, opn, bcls, closeall, trade,
                   orderbook_cache>>

\* _close_positions_batch, stage 1: the positions not yet marked closed
Remaining(b) == {p \in Positions : ~b.close_status[p]}

\* what one round of stage 1 does to one remaining position:
\* _place_close_order finds it closed; returns None without an order (API
\* error or no bid/ask), the later check not seeing it closed / seeing it
\* closed; place_limit_order raises; the order fills within the wait; it does
\* not fill; it fills late and the closing check sees that / does not
BatchOutcomes == {"already_closed", "no_order", "gone_seen", "place_raises",
                  "filled", "not_filled", "late_fill", "late_fill_unseen"}

NeedsPosition == {"place_raises", "filled", "not_filled", "late_fill", "late_fill_unseen"}
LimitPlaced == NeedsPosition
MarksClosed == {"already_closed", "gone_seen", "filled", "late_fill"}
ClosesPosition == {"filled", "late_fill", "late_fill_unseen"}

\* the cancel_all_orders the batch close issues: at the start of every round
\* after the first and at the start of the market stage, for the positions
\* not yet marked closed; it comes after the close only for a position that
\* had closed unseen
StageCancels(cancels, remaining, position) == cancels /\ remaining /\ ~position

BatchCloseAttempt(outcomes) ==
    /\ bcls.pc = "stage1"
    /\ CloseAttemptsLeft(bcls.attempt, max_close_retries)
    /\ Remaining(bcls) # {}
    /\ \A p \in Positions :
          IF p \in Remaining(bcls)
          THEN /\ outcomes[p] \in BatchOutcomes
               /\ outcomes[p] \in NeedsPosition => bcls.position[p]
               /\ outcomes[p] \in {"already_closed", "gone_seen"} => ~bcls.position[p]
          ELSE outcomes[p] = "skip"
    /\ bcls' = [bcls EXCEPT
          !.attempt = @ + 1,
          !.limit_orders = [p \in Positions |->
              IF outcomes[p] \in LimitPlaced THEN @[p] + 1 ELSE @[p]],
          !.position = [p \in Positions |->
              IF outcomes[p] \in ClosesPosition THEN FALSE ELSE @[p]],
          !.close_status = [p \in Positions |->
              IF outcomes[p] \in MarksClosed THEN TRUE ELSE @[p]],
          !.cancel_after_close = [p \in Positions |->
              @[p] \/ StageCancels(bcls.attempt > 0, p \in Remaining(bcls),
                                   bcls.position[p])]]
    /\ UNCHANGED <<poolVars, apiVars, orchVars, dist, opn, cls, closeall, trade,
                   orderbook_cache>>

\* stage 2 (market orders for what remains, if use_market_fallback) and
\* stage 3 (the counts that are logged)
BatchCloseFallback(outcomes) ==
    /\ bcls.pc = "stage1"
    /\ ~CloseAttemptsLeft(bcls.attempt, max_close_retries) \/ Remaining(bcls) = {}
    /\ \A p \in Positions :
          IF p \in Remaining(bcls) /\ bcls.use_market_fallback
          THEN /\ outcomes[p] \in FallbackOutcomes
               /\ outcomes[p] = "no_position"
                     <=> (~bcls.position[p] /\ outcomes[p] # "query_raises")
          ELSE outcomes[p] = "skip"
    /\ LET status == [p \in Positions |->
                         IF outcomes[p] \in {"no_position", "market_closed"}
                         THEN TRUE ELSE bcls.close_status[p]]
           success == Cardinality({p \in Positions : status[p]})
       IN bcls' = [bcls EXCEPT
             !.pc = "done",
             !.fallbacks = [p \in Positions |->
                 IF outcomes[p] # "skip" THEN @[p] + 1 ELSE @[p]],
             !.open_at_fallback = [p \in Positions |->
                 p \in Remaining(bcls) /\ bcls.position[p]],
             !.query = [p \in Positions |->
                 IF outcomes[p] # "skip" THEN QueryOf(outcomes[p]) ELSE @[p]],
             !.market_orders = [p \in Positions |->
                 IF outcomes[p] \in MarketCalled THEN @[p] + 1 ELSE @[p]],
             !.market_reduce_only = [p \in Positions |-> outcomes[p] \in MarketCalled],
             !.position = [p \in Positions |->
                 IF outcomes[p] = "market_closed" THEN FALSE ELSE @[p]],
             !.close_status = status,
             !.cancel_after_close = [p \in Positions |->
                 @[p] \/ StageCancels(bcls.use_market_fallback,
                                      p \in Remaining(bcls), bcls.position[p])],
             !.success_count = success,
             !.failed_count = NumPositions - success]
    /\ UNCHANGED <<poolVars, apiVars, orchVars, dist, opn, cls, closeall, trade,
                   orderbook_cache>>

CloseInit ==
    /\ Constructed
    /\ dist = DistIdle
    /\ opn = OpenIdle
    /\ closeall = CloseAllIdle
    /\ trade = TradeIdle
    /\ orderbook_cache = OrderBookCache_init
    /\ \E f \in BOOLEAN :
          \/ /\ cls = [CloseIdle EXCEPT !.pc = "loop", !.use_market_fallback = f]
             /\ bcls = BatchCloseIdle
          \/ /\ cls = CloseIdle
             /\ bcls = [BatchCloseIdle EXCEPT !.pc = "stage1",
                                              !.use_market_fallback = f]

CloseNext ==
    \/ \E outcome \in CloseOutcomes : CloseAttempt(outcome)
    \/ \E outcome \in FallbackOutcomes : CloseFallback(outcome)
    \/ CloseNoFallback
    \/ \E outcomes \in [Positions -> BatchOutcomes \cup {"skip"}] :
          BatchCloseAttempt(outcomes)
    \/ \E outcomes \in [Positions -> FallbackOutcomes \cup {"skip"}] :
          BatchCloseFallback(outcomes)

CloseSpec == CloseInit /\ [][CloseNext]_vars

\* what one close (the per-account close, or one position of the batch
\* close) keeps; exhausted: every limit attempt was used; done: it returned
CloseBounds(limit_orders, market_orders, fallbacks, query, reduce_only,
            use_market_fallback, exhausted, done) ==
    /\ limit_orders <= max_close_retries
    /\ fallbacks <= 1 /\ market_orders <= 1
    /\ market_orders = 1 =>
          /\ use_market_fallback /\ exhausted /\ reduce_only
          /\ fallbacks = 1 /\ query = "position"
    /\ (done /\ query = "position") => market_orders = 1
    /\ (done /\ query \in {"raised", "empty"}) => market_orders = 0
    /\ ~use_market_fallback => market_orders = 0 /\ fallbacks = 0

\* C7 (as amended): a close makes at most max_close_retries limit attempts;
\* when they all fail and market fallback is enabled it enters the fallback
\* once and places at most one market order, always reduce-only: exactly one
\* when the fallback's position query succeeds and shows the position, none
\* when the query fails (close reported failed) or shows no position (close
\* reported done); with fallback disabled it places no market order and
\* reports the close as failed.  Per-account close and batch close alike.
C7_CloseRetryBound ==
    /\ cls.attempt <= max_close_retries
    /\ CloseBounds(cls.limit_orders, cls.market_orders, cls.fallbacks, cls.query,
                   cls.market_reduce_only, cls.use_market_fallback,
                   cls.attempt = max_close_retries, cls.pc = "done")
    /\ (cls.pc = "done" /\ cls.attempt = max_close_retries) =>
          /\ cls.use_market_fallback => cls.fallbacks = 1
          /\ cls.query = "raised" => ~cls.result
          /\ cls.query = "empty" => cls.result
          /\ ~cls.use_market_fallback => ~cls.result
    /\ bcls.attempt <= max_close_retries
    /\ \A p \in Positions :
          /\ CloseBounds(bcls.limit_orders[p], bcls.market_orders[p],
                         bcls.fallbacks[p], bcls.query[p],
                         bcls.market_reduce_only[p], bcls.use_market_fallback,
                         bcls.attempt = max_close_retries, bcls.pc = "done")
          /\ (bcls.pc = "done" /\ bcls.attempt = max_close_retries
                /\ bcls.limit_orders[p] + bcls.fallbacks[p] > 0
                /\ ~bcls.close_status[p]) => bcls.failed_count >= 1
          /\ (bcls.pc = "done" /\ bcls.use_market_fallback
                /\ bcls.open_at_fallback[p]) => bcls.fallbacks[p] = 1
          /\ (bcls.pc = "done" /\ bcls.query[p] = "raised") => ~bcls.close_status[p]
          /\ (bcls.pc = "done" /\ bcls.query[p] = "empty") => bcls.close_status[p]
          /\ (bcls.pc = "done" /\ ~bcls.use_market_fallback
                /\ bcls.open_at_fallback[p]) =>
                    /\ ~bcls.close_status[p]
                    /\ bcls.failed_count >= 1

C7_Witness ==
    /\ bcls.pc = "done" /\ bcls.use_market_fallback
    /\ \E p, q \in Positions :
          /\ bcls.limit_orders[p] = max_close_retries
          /\ bcls.open_at_fallback[p] /\ bcls.market_orders[p] = 1
          /\ bcls.open_at_fallback[q] /\ bcls.query[q] = "raised"
          /\ bcls.market_orders[q] = 0

\* C7 as stated: once the limit attempts have all failed on a position that
\* is still open, fallback enabled means exactly one reduce-only market order
\* for it, and fallback disabled means none and a failed close; per-account
\* close and batch close
C7_ExactlyOneMarketOrder ==
    /\ (cls.pc = "done" /\ cls.attempt = max_close_retries /\ cls.open_at_fallback) =>
          IF cls.use_market_fallback
          THEN cls.market_orders = 1 /\ cls.market_reduce_only
          ELSE cls.market_orders = 0 /\ ~cls.result
    /\ \A p \in Positions :
          (bcls.pc = "done" /\ bcls.attempt = max_close_retries
             /\ bcls.open_at_fallback[p]) =>
                IF bcls.use_market_fallback
                THEN bcls.market_orders[p] = 1 /\ bcls.market_reduce_only[p]
                ELSE bcls.market_orders[p] = 0 /\ ~bcls.close_status[p]

\* C22: whenever a close routine reports a position closed, a
\* cancel_all_orders for that account and market was issued after the close
\* went through: the per-account close that returns True, and every position
\* the batch close has marked closed when it returns.
C22_CancelAfterClose ==
    /\ (cls.pc = "done" /\ cls.result) => cls.cancel_after_close
    /\ \A p \in Positions :
          (bcls.pc = "done" /\ bcls.close_status[p]) => bcls.cancel_after_close[p]


(***************************************************************************)
(* The close step of shutdown(): BatchTrader.close_all_positions and        *)
(* _mass_cancel_all_accounts (CloseAllSpec).  The trader holds every        *)
(* account handed to the pool; `open` is the set of accounts with an open   *)
(* position on the exchange.                                                *)
(***************************************************************************)
max_detection_rounds == 5

\* _mass_cancel_all_accounts: one mass cancel request per client, failures
\* collected by gather and logged
MassCancelAll(c) ==
    [c EXCEPT !.pc = "done", !.mass_cancels = @ + 1, !.mass_cancelled = Accounts]

\* shutdown(): the `if close_positions:` branch and its else
ShutdownCloseStep ==
    /\ closeall.pc = "shutdown"
    /\ closeall' =
          IF CloseStepCalls(closeall.close_positions) = "close_all_positions"
          THEN [closeall EXCEPT !.pc = "round", !.close_all_calls = @ + 1]
          ELSE MassCancelAll(closeall)
    /\ UNCHANGED <<poolVars, apiVars, orchVars, dist, opn, cls, bcls, trade,
                   orderbook_cache>>

\* close_all_positions, one detection round: _fetch_all_positions queries
\* every account (an account whose queries fail shows no position); nothing
\* found ends the loop; else _close_positions_batch is given what was found,
\* closes some of it, or raises
DetectionRound(visible, closed, raises) ==
    /\ closeall.pc = "round"
    /\ closeall.detection_round < max_detection_rounds
    /\ visible \subseteq closeall.open
    /\ closed \subseteq visible
    /\ raises => visible # {} /\ closed = {}
    /\ LET fetched == [closeall EXCEPT !.detection_round = @ + 1,
                                       !.fetches = @ + 1,
                                       !.queried = Accounts,
                                       !.found = visible]
       IN closeall' =
             IF visible = {}
             THEN MassCancelAll(fetched)
             ELSE IF raises
             THEN [fetched EXCEPT !.pc = "done", !.raised = TRUE,
                                  !.batch_closes = @ + 1,
                                  !.close_targets = @ \cup visible]
             ELSE [fetched EXCEPT !.batch_closes = @ + 1,
                                  !.close_targets = @ \cup visible,
                                  !.open = @ \ closed]
    /\ UNCHANGED <<poolVars, apiVars, orchVars, dist, opn, cls, bcls, trade,
                   orderbook_cache>>

\* close_all_positions after max_detection_rounds rounds
RoundsExhausted ==
    /\ closeall.pc = "round"
    /\ closeall.detection_round >= max_detection_rounds
    /\ closeall' = MassCancelAll(closeall)
    /\ UNCHANGED <<poolVars, apiVars, orchVars, dist, opn, cls, bcls, trade,
                   orderbook_cache>>

CloseAllInit ==
    /\ Constructed
    /\ dist = DistIdle /\ opn = OpenIdle /\ cls = CloseIdle /\ bcls = BatchCloseIdle
    /\ trade = TradeIdle
    /\ orderbook_cache = OrderBookCache_init
    /\ \E close_positions \in BOOLEAN, open \in SUBSET Accounts :
          closeall = [CloseAllIdle EXCEPT !.pc = "shutdown",
                                          !.close_positions = close_positions,
                                          !.open = open]

CloseAllNext ==
    \/ ShutdownCloseStep
    \/ \E visible, closed \in SUBSET Accounts, raises \in BOOLEAN :
          DetectionRound(visible, closed, raises)
    \/ RoundsExhausted

CloseAllSpec == CloseAllInit /\ [][CloseAllNext]_vars

Touched == 1..MaxTouched
TouchedIds == Touched \cup {UnknownId}
TouchedLists == {ids \in SUBSET TouchedIds : ids # {} /\ Cardinality(ids) <= 2}

BalUnchanged == UNCHANGED <<use_balanced_pool, cooldown_seconds,
                            max_consecutive_errors, relDue, orchVars, traderVars>>

BalSelect(size, balanced) ==
    /\ \E out \in get_random_batch(statuses, now, size, None, balanced,
                                   use_balanced_pool) :
          /\ statuses' = out.statuses
          /\ last' = [Other EXCEPT !.op = "select", !.size = size,
                                   !.balanced = balanced, !.none = out.none,
                                   !.batch = out.batch]
    /\ UNCHANGED <<consecutive_errors, now, hist>>
    /\ BalUnchanged

BalRelease(account_ids, cooldown_override) ==
    /\ \A a \in account_ids \cap Accounts : statuses[a].trades_count < MaxTrades
    /\ statuses' = release_batch(statuses, account_ids, cooldown_override,
                                 cooldown_seconds, now)
    /\ last' = Other
    /\ UNCHANGED <<consecutive_errors, now, hist>>
    /\ BalUnchanged

BalReleaseImmediately(account_ids) ==
    /\ statuses' = release_immediately(statuses, account_ids)
    /\ last' = Other
    /\ UNCHANGED <<consecutive_errors, now, hist>>
    /\ BalUnchanged

BalDisable(account_id) ==
    /\ statuses' = disable_account(statuses, account_id)
    /\ hist' = [hist EXCEPT !.barred = @ \cup ({account_id} \cap Accounts)]
    /\ last' = Other
    /\ UNCHANGED <<consecutive_errors, now>>
    /\ BalUnchanged

\* as BalEnable, with the account's error count cleared
BalEnable_resets(account_id) ==
    /\ statuses' = enable_account(statuses, account_id)
    /\ consecutive_errors' = report_success(consecutive_errors, account_id)
    /\ hist' = [hist EXCEPT !.barred = @ \ {account_id}]
    /\ last' = Other
    /\ UNCHANGED now
    /\ BalUnchanged

BalEnable(account_id) ==
    /\ statuses' = enable_account(statuses, account_id)
    /\ hist' = [hist EXCEPT !.barred = @ \ {account_id}]
    /\ last' = Other
    /\ UNCHANGED <<consecutive_errors, now>>
    /\ BalUnchanged

BalReportError(account_id) ==
    /\ account_id \in Accounts => hist.run[account_id] < MaxRun
    /\ LET out == report_error(statuses, consecutive_errors, account_id,
                               max_consecutive_errors)
       IN /\ statuses' = out.statuses
          /\ consecutive_errors' = out.consecutive_errors
    /\ hist' = IF account_id \notin Accounts THEN hist
               ELSE [hist EXCEPT
                       !.run[account_id] = @ + 1,
                       !.barred = IF hist.run[account_id] + 1 >= max_consecutive_errors
                                  THEN @ \cup {account_id} ELSE @]
    /\ last' = Other
    /\ UNCHANGED now
    /\ BalUnchanged

BalReportSuccess(account_id) ==
    /\ consecutive_errors' = report_success(consecutive_errors, account_id)
    /\ hist' = IF account_id \notin Accounts THEN hist
               ELSE [hist EXCEPT !.run[account_id] = 0]
    /\ last' = Other
    /\ UNCHANGED <<statuses, now>>
    /\ BalUnchanged

\* a read accessor: lazy cooldown expiry
BalStats ==
    /\ statuses' = update_cooldowns(statuses, now)
    /\ last' = Other
    /\ UNCHANGED <<consecutive_errors, now, hist>>
    /\ BalUnchanged

BalTick ==
    /\ now < MaxClock
    /\ now' = now + 1
    /\ last' = Other
    /\ UNCHANGED <<statuses, consecutive_errors, hist>>
    /\ BalUnchanged

BalancerInit ==
    /\ statuses = InitStatuses
    /\ consecutive_errors = [a \in Accounts |-> 0]
    /\ use_balanced_pool = TRUE
    /\ cooldown_seconds = 1
    /\ max_consecutive_errors = MaxErrors
    /\ now = 1
    /\ last = Other
    /\ relDue = [a \in Accounts |-> None]
    /\ hist = NoCalls
    /\ OrchConstructed(1, <<1, 1>>)
    /\ TraderIdle

BalancerNext ==
    \/ \E size \in 1..MaxSize, balanced \in BOOLEAN : BalSelect(size, balanced)
    \/ \E ids \in TouchedLists, c \in {None, 0} : BalRelease(ids, c)
    \/ \E ids \in TouchedLists : BalReleaseImmediately(ids)
    \/ \E a \in TouchedIds : BalDisable(a)
    \/ \E a \in TouchedIds : BalEnable(a)
    \/ \E a \in TouchedIds : BalReportError(a)
    \/ \E a \in TouchedIds : BalReportSuccess(a)
    \/ BalStats
    \/ BalTick

BalancerSpec == BalancerInit /\ [][BalancerNext]_vars

\* C18: an account that was disabled (by disable_account or by reaching the
\* consecutive-error threshold) and has not been enabled since is never in
\* the batch a selection returns, whatever releases, reports and cooldown
\* expiries came in between.
C18_DisabledNeverSelected ==
    last.op = "select" => last.batch \cap hist.barred = {}

\* C19: in the balanced pool the error count of an account is the number of
\* report_error calls on it since its last report_success; a report_error
\* call disables the account exactly when that number has reached
\* max_consecutive_errors and otherwise leaves its state alone, and
\* report_success resets the count to 0 and changes no state.
C19_AutoDisable ==
    [][\A a \in Accounts :
          /\ consecutive_errors'[a] = hist'.run[a]
          /\ hist'.run[a] = hist.run[a] + 1
                => IF hist'.run[a] >= max_consecutive_errors
                   THEN statuses'[a].status = "disabled"
                   ELSE statuses'[a] = statuses[a]
          /\ (hist'.run[a] = 0 /\ hist.run[a] > 0)
                => consecutive_errors'[a] = 0 /\ statuses' = statuses]_vars

C19_Witness ==
    \E a, b \in Accounts :
        /\ hist.run[a] = max_consecutive_errors
        /\ statuses[a].status = "disabled"
        /\ hist.run[b] = max_consecutive_errors - 1
        /\ statuses[b].status = "in_trade"
        /\ consecutive_errors[b] = max_consecutive_errors - 1


\* C40: enable_account makes the account available and leaves every
\* consecutive-error count as it was; so an account whose count has reached
\* max_consecutive_errors and that is not disabled any more is disabled
\* again by the next report_error on it.
C40_EnableKeepsErrors ==
    [][\A a \in Accounts :
          /\ BalEnable(a)
                => /\ statuses'[a].status = "available"
                   /\ consecutive_errors' = consecutive_errors
          /\ (/\ BalReportError(a)
              /\ consecutive_errors[a] >= max_consecutive_errors
              /\ statuses[a].status # "disabled")
                => /\ statuses'[a].status = "disabled"
                   /\ consecutive_errors'[a] = consecutive_errors[a] + 1]_vars

C40_Witness ==
    \E a \in Accounts :
        /\ statuses[a].status = "available"
        /\ consecutive_errors[a] = max_consecutive_errors
        /\ hist.run[a] = max_consecutive_errors
        /\ a \notin hist.barred
        /\ statuses[a].trades_count = 0

\* C34: in every reachable pool state an account in cooldown has its release
\* time set and an available or in_trade account has none: release sets it,
\* lazy expiry, release_immediately and enable clear it; disable leaves it as
\* it was.
C34_ReleaseTime ==
    \A a \in Accounts :
        /\ statuses[a].status = "cooldown" => statuses[a].release_time # None
        /\ statuses[a].status \in {"available", "in_trade"}
              => statuses[a].release_time = None

C34_Witness ==
    \E a, b \in Accounts :
        /\ statuses[a].status = "disabled" /\ statuses[a].release_time # None
        /\ statuses[b].status = "available" /\ statuses[b].trades_count = 1
        /\ hist.barred = {a}

\* C34 as stated: the release time is set if and only if the account is in
\* cooldown.
C34_SetIffCooldown ==
    \A a \in Accounts :
        statuses[a].release_time # None <=> statuses[a].status = "cooldown"

(***************************************************************************)
(* account_pool.py: one call of a release / disable / enable / report       *)
(* method on a pool in any combination of account states, with identifiers  *)
(* that are and are not keys of the pool.  hist.call records the call.      *)
(***************************************************************************)
PoolEntries ==
    {AccountStatus("available", None, 0), AccountStatus("in_trade", None, 0),
     AccountStatus("cooldown", 2, 1), AccountStatus("disabled", None, 1)}

Called(op, ids, cooldown_override) ==
    /\ hist.call.op = "none"
    /\ hist' = [hist EXCEPT !.call = [op |-> op, ids |-> ids,
                                      cooldown_override |-> cooldown_override]]
    /\ last' = Other
    /\ UNCHANGED now
    /\ BalUnchanged

CallRelease(account_ids, cooldown_override) ==
    /\ statuses' = release_batch(statuses, account_ids, cooldown_override,
                                 cooldown_seconds, now)
    /\ UNCHANGED consecutive_errors
    /\ Called("release_batch", account_ids, cooldown_override)

CallReleaseImmediately(account_ids) ==
    /\ statuses' = release_immediately(statuses, account_ids)
    /\ UNCHANGED consecutive_errors
    /\ Called("release_immediately", account_ids, None)

CallDisable(account_id) ==
    /\ statuses' = disable_account(statuses, account_id)
    /\ UNCHANGED consecutive_errors
    /\ Called("disable_account", {account_id}, None)

CallEnable(account_id) ==
    /\ statuses' = enable_account(statuses, account_id)
    /\ UNCHANGED consecutive_errors
    /\ Called("enable_account", {account_id}, None)

CallReportError(account_id) ==
    /\ LET out == report_error(statuses, consecutive_errors, account_id,
                               max_consecutive_errors)
       IN /\ statuses' = out.statuses
          /\ consecutive_errors' = out.consecutive_errors
    /\ Called("report_error", {account_id}, None)

UnknownIdInit ==
    /\ statuses \in [Accounts -> PoolEntries]
    /\ consecutive_errors \in [Accounts -> 0..(MaxErrors - 1)]
    /\ use_balanced_pool = TRUE
    /\ cooldown_seconds = 1
    /\ max_consecutive_errors = MaxErrors
    /\ now = 1
    /\ last = Other
    /\ relDue = [a \in Accounts |-> None]
    /\ hist = NoCalls
    /\ OrchConstructed(1, <<1, 1>>)
    /\ TraderIdle

UnknownIdNext ==
    \/ \E ids \in IdLists, c \in {None, 0} : CallRelease(ids, c)
    \/ \E ids \in IdLists : CallReleaseImmediately(ids)
    \/ \E a \in AllIds : CallDisable(a)
    \/ \E a \in AllIds : CallEnable(a)
    \/ \E a \in AllIds : CallReportError(a)

UnknownIdSpec == UnknownIdInit /\ [][UnknownIdNext]_vars

\* the state, release time and trade count a known account has after the call
Processed(call, before, t) ==
    CASE call.op = "release_batch" ->
            AccountStatus("cooldown",
                          t + (IF call.cooldown_override # None
                               THEN call.cooldown_override ELSE cooldown_seconds),
                          before.trades_count + 1)
      [] call.op = "release_immediately" ->
            AccountStatus("available", None, before.trades_count)
      [] call.op = "disable_account" ->
            AccountStatus("disabled", before.release_time, before.trades_count)
      [] call.op = "enable_account" ->
            AccountStatus("available", None, before.trades_count)

\* C27: a release_batch, release_immediately, disable_account, enable_account
\* or report_error call whose identifiers include one that is not in the pool
\* leaves every account that was not passed as it was (state, release time,
\* trade count, error count), and processes every known identifier passed in
\* the same call.
C27_UnknownIgnored ==
    [][(hist.call.op = "none" /\ UnknownId \in hist'.call.ids)
        => \A a \in Accounts :
              IF a \notin hist'.call.ids
              THEN /\ statuses'[a] = statuses[a]
                   /\ consecutive_errors'[a] = consecutive_errors[a]
              ELSE /\ statuses'[a] = Processed(hist'.call, statuses[a], now)
                   /\ consecutive_errors'[a] = consecutive_errors[a]]_vars

C27_Witness ==
    /\ hist.call.op = "release_immediately"
    /\ \E a, b \in Accounts :
          /\ hist.call.ids = {UnknownId, a}
          /\ statuses[a] = AccountStatus("available", None, 1)
          /\ statuses[b].status = "in_trade"

(***************************************************************************)
(* One task's open and monitor stages (TradeSpec): _execute_trading calls   *)
(* _open_positions once, which starts one _open_position per account,       *)
(* gathers their outcomes with return_exceptions=True and counts them, and  *)
(* then calls _monitor_positions.                                           *)
(***************************************************************************)
\* a batch holds at least one long and one short account
Batches == {b \in SUBSET Accounts : Cardinality(b) >= 2}

Returned(results) == {a \in Accounts : results[a] = "returned"}
Raised(results) == {a \in Accounts : results[a] = "exception"}

\* random.randint(a, b) raises ValueError on an empty range
RandintRaises(a, b) == a > b

\* _execute_trading before its try: the accounts of the task are looked up in
\* trader.accounts (unknown ids are logged and left out), long_count is drawn
\* from long_accounts_range capped at len(accounts) - 1, and the shuffled
\* accounts are cut into longs and shorts
BuildBatch(account_ids, long_count, longs) ==
    /\ trade.pc = "idle"
    /\ LET accounts == account_ids \cap Accounts
           min_longs == trade.long_accounts_range[1]
           max_longs == trade.long_accounts_range[2]
           upper == Min(max_longs, Cardinality(accounts) - 1)
       IN IF accounts = {} \/ RandintRaises(min_longs, upper)
          THEN /\ long_count = 0 /\ longs = {}
               /\ trade' = [trade EXCEPT !.pc = "build_raised",
                                         !.task_ids = account_ids]
          ELSE /\ long_count \in min_longs..upper
               /\ longs \subseteq accounts
               /\ Cardinality(longs) = long_count
               /\ trade' = [trade EXCEPT !.pc = "built",
                                         !.task_ids = account_ids,
                                         !.long_accounts = longs,
                                         !.short_accounts = accounts \ longs]
    /\ UNCHANGED <<poolVars, apiVars, orchVars, dist, opn, cls, bcls, closeall,
                   orderbook_cache>>

\* _execute_trading up to the tasks _open_positions creates
ExecuteTrading(batch) ==
    /\ trade.pc = "built"
    /\ batch = trade.long_accounts \cup trade.short_accounts
    /\ trade' = [trade EXCEPT !.pc = "opening", !.accounts = batch,
                              !.steps = @ \o <<"leverage_set", "open">>,
                              !.open_calls = @ + 1,
                              !.results = [a \in Accounts |->
                                   IF a \in batch THEN "pending" ELSE "none"]]
    /\ UNCHANGED <<poolVars, apiVars, orchVars, dist, opn, cls, bcls, closeall,
                   orderbook_cache>>

\* one account's _open_position returns (position open) or raises
OpenPositionDone(account, success) ==
    /\ trade.pc = "opening"
    /\ trade.results[account] = "pending"
    /\ trade' = [trade EXCEPT !.results[account] =
                                   IF success THEN "returned" ELSE "exception",
                              !.holding = IF success THEN @ \cup {account} ELSE @]
    /\ UNCHANGED <<poolVars, apiVars, orchVars, dist, opn, cls, bcls, closeall,
                   orderbook_cache>>

\* as GatherResults, with a failed open raised out of _open_positions
GatherResults_raises ==
    /\ trade.pc = "opening"
    /\ \A a \in trade.accounts : trade.results[a] # "pending"
    /\ LET opened_count == Cardinality(Returned(trade.results))
           failed_count == Cardinality(Raised(trade.results))
       IN trade' = [trade EXCEPT !.pc = IF failed_count > 0 THEN "raised"
                                       ELSE "opened",
                                 !.error = IF failed_count > 0 THEN "open error"
                                          ELSE @,
                                 !.opened_count = opened_count,
                                 !.failed_count = failed_count,
                                 !.positions_opened = Cardinality(trade.accounts)]
    /\ UNCHANGED <<poolVars, apiVars, orchVars, dist, opn, cls, bcls, closeall,
                   orderbook_cache>>

\* asyncio.gather(*tasks, return_exceptions=True) and the count of outcomes,
\* which are only logged: _open_positions returns and _execute_trading sets
\* positions_opened = batch.total_accounts
GatherResults ==
    /\ trade.pc = "opening"
    /\ \A a \in trade.accounts : trade.results[a] # "pending"
    /\ LET opened_count == Cardinality(Returned(trade.results))
           failed_count == Cardinality(Raised(trade.results))
       IN trade' = [trade EXCEPT !.pc = "opened",
                                 !.opened_count = opened_count,
                                 !.failed_count = failed_count,
                                 !.positions_opened = Cardinality(trade.accounts)]
    /\ UNCHANGED <<poolVars, apiVars, orchVars, dist, opn, cls, bcls, closeall,
                   orderbook_cache>>

\* _monitor_positions starts: every account of the batch is watched
MonitorStart ==
    /\ trade.pc = "opened"
    /\ trade' = [trade EXCEPT !.pc = "monitor", !.open_positions = trade.accounts,
                              !.steps = Append(@, "monitor")]
    /\ UNCHANGED <<poolVars, apiVars, orchVars, dist, opn, cls, bcls, closeall,
                   orderbook_cache>>

\* one poll of one watched account: an account showing no position (never
\* opened, or closed meanwhile) is dropped from open_positions
MonitorPoll(account, has_position) ==
    /\ trade.pc = "monitor"
    /\ account \in trade.open_positions
    /\ has_position => account \in trade.holding
    /\ trade' = [trade EXCEPT !.open_positions =
                                   IF has_position THEN @ ELSE @ \ {account},
                              !.holding =
                                   IF has_position THEN @ ELSE @ \ {account}]
    /\ UNCHANGED <<poolVars, apiVars, orchVars, dist, opn, cls, bcls, closeall,
                   orderbook_cache>>

\* POSITION_MANAGEMENT.get('stop_loss_percent', -70)
stop_loss_percent == -70

\* the PnL, in percent of the margin, a poll may read for a position
PnlPercents == {stop_loss_percent - 1, stop_loss_percent, stop_loss_percent + 1}

\* `if margin_pnl_pct <= sl_percent`
StopLossHit(margin_pnl_pct, sl_percent) == margin_pnl_pct <= sl_percent

\* one poll of one watched account that holds a position, with the client
\* side stop loss on: at or below the threshold _close_position is called,
\* its exception is logged, and the account is dropped from open_positions
MonitorStopLoss(account, margin_pnl_pct, close_ok) ==
    /\ trade.pc = "monitor"
    /\ trade.stop_loss_enabled
    /\ account \in trade.open_positions \cap trade.holding
    /\ trade' = IF StopLossHit(margin_pnl_pct, stop_loss_percent)
                THEN [trade EXCEPT
                        !.sl_closes = @ \cup {account},
                        !.sl_failed = IF close_ok THEN @ ELSE @ \cup {account},
                        !.holding = IF close_ok THEN @ \ {account} ELSE @,
                        !.open_positions = @ \ {account}]
                ELSE trade
    /\ UNCHANGED <<poolVars, apiVars, orchVars, dist, opn, cls, bcls, closeall,
                   orderbook_cache>>

\* the hold time is over or nothing is watched any more: each account still
\* watched is queried once more (REST, then the SDK if that raises); found
\* holds those a position was returned for, the only ones handed to the close
MonitorEnd(found) ==
    /\ trade.pc = "monitor"
    /\ found \subseteq trade.open_positions \cap trade.holding
    /\ trade' = [trade EXCEPT !.pc = "closing", !.to_close = found,
                              !.open_positions = {}]
    /\ UNCHANGED <<poolVars, apiVars, orchVars, dist, opn, cls, bcls, closeall,
                   orderbook_cache>>

\* _close_positions_batch on the positions found (not called when none was):
\* it raises while preparing them, or runs the limit attempts and the market
\* fallback on each of them, which closes some
ClosePositionsBatch(closed, raises) ==
    /\ trade.pc = "closing"
    /\ closed \subseteq trade.to_close
    /\ trade.to_close = {} => ~raises
    /\ raises => closed = {}
    /\ trade' = IF raises THEN [trade EXCEPT !.pc = "raised",
                                             !.error = "close error",
                                             !.steps = Append(@, "close")]
                ELSE [trade EXCEPT !.pc = "monitored",
                                   !.steps = Append(@, "close"),
                                   !.close_attempted = trade.to_close,
                                   !.holding = @ \ closed]
    /\ UNCHANGED <<poolVars, apiVars, orchVars, dist, opn, cls, bcls, closeall,
                   orderbook_cache>>

\* the finally of _execute_trading: release_batch on every account of the task
ReleaseBatch ==
    /\ trade.pc \in {"monitored", "raised"}
    /\ trade' = [trade EXCEPT !.pc = "released", !.released = trade.accounts,
                              !.steps = Append(@, "release")]
    /\ statuses' = release_batch(statuses, trade.task_ids, cooldown_seconds,
                                 cooldown_seconds, now)
    /\ UNCHANGED <<consecutive_errors, poolConfig, now, apiVars, orchVars, dist,
                   opn, cls, bcls, closeall, orderbook_cache>>

\* _execute_trading has returned its TaskResult or raised (before its try
\* when no batch was built): _process_task builds the failed result and
\* releases immediately in the second case, and its finally reports the
\* result of every account of the task to the balanced pool
ProcessTaskEnd ==
    /\ trade.pc \in {"released", "build_raised"}
    /\ LET success == trade.pc = "released" /\ trade.error = "none"
           error == IF trade.pc = "build_raised" THEN ErrorText(FALSE)
                    ELSE trade.error
           released == IF success THEN statuses
                       ELSE FailedRelease(statuses, trade.task_ids)
           rep == ReportResult(released, consecutive_errors, trade.task_ids,
                               success, use_balanced_pool, max_consecutive_errors)
       IN /\ statuses' = rep.statuses
          /\ consecutive_errors' = rep.consecutive_errors
          /\ trade' = [trade EXCEPT
                         !.pc = "done",
                         !.reported = IF ~use_balanced_pool THEN "none"
                                      ELSE IF success THEN "success" ELSE "error",
                         !.task_result =
                             [success |-> success,
                              positions_opened |-> IF success
                                                   THEN trade.positions_opened
                                                   ELSE 0,
                              error |-> error]]
    /\ UNCHANGED <<poolConfig, now, apiVars, orchVars, dist, opn, cls, bcls,
                   closeall, orderbook_cache>>

\* the pool as it is when a worker has dequeued a task: the accounts of the
\* tasks handed out are in_trade, some with errors counted against them
TradeInit ==
    /\ statuses = MarkInTrade(InitStatuses, Accounts)
    /\ consecutive_errors \in [Accounts -> 0..MaxErrors - 1]
    /\ use_balanced_pool \in BOOLEAN
    /\ cooldown_seconds = 1
    /\ max_consecutive_errors = MaxErrors
    /\ now = 1
    /\ last = Other
    /\ relDue = [a \in Accounts |-> None]
    /\ hist = NoCalls
    /\ OrchConstructed(1, <<1, 1>>)
    /\ dist = DistIdle /\ opn = OpenIdle /\ cls = CloseIdle /\ bcls = BatchCloseIdle
    /\ closeall = CloseAllIdle
    /\ \E stop_loss_enabled \in BOOLEAN, max_longs \in 1..MaxLongs :
          trade = [TradeIdle EXCEPT !.stop_loss_enabled = stop_loss_enabled,
                                    !.long_accounts_range = <<1, max_longs>>]
    /\ orderbook_cache = OrderBookCache_init

TradeNext ==
    \/ \E account_ids \in SUBSET AllIds \ {{}}, long_count \in 0..MaxLongs,
          longs \in SUBSET Accounts : BuildBatch(account_ids, long_count, longs)
    \/ \E batch \in Batches : ExecuteTrading(batch)
    \/ \E a \in Accounts, success \in BOOLEAN : OpenPositionDone(a, success)
    \/ GatherResults
    \/ MonitorStart
    \/ \E a \in Accounts, has_position \in BOOLEAN : MonitorPoll(a, has_position)
    \/ \E a \in Accounts, margin_pnl_pct \in PnlPercents, close_ok \in BOOLEAN :
          MonitorStopLoss(a, margin_pnl_pct, close_ok)
    \/ \E found \in SUBSET Accounts : MonitorEnd(found)
    \/ \E closed \in SUBSET Accounts, raises \in BOOLEAN :
          ClosePositionsBatch(closed, raises)
    \/ ReleaseBatch
    \/ ProcessTaskEnd

TradeSpec == TradeInit /\ [][TradeNext]_vars

\* C20: when some account's open failed while others of the batch opened, the
\* pipeline does not go on to Monitor with only part of the batch open: the
\* batch is in Monitor only with every account's open returned or none.
C20_NoPartialMonitor ==
    trade.pc = "monitor" =>
        \/ Returned(trade.results) = trade.accounts
        \/ Returned(trade.results) = {}

\* C33: a batch a worker has built has disjoint long and short sets that
\* together are the task's accounts known to the trader, at least one long
\* and one short account, and a long count different from the short count.
C33_BatchShape ==
    trade.pc \notin {"idle", "build_raised"}
    => /\ trade.long_accounts \cap trade.short_accounts = {}
       /\ trade.long_accounts \cup trade.short_accounts
             = trade.task_ids \cap Accounts
       /\ trade.long_accounts # {} /\ trade.short_accounts # {}
       /\ Cardinality(trade.long_accounts) # Cardinality(trade.short_accounts)

\* C35: an account whose stop-loss close failed stays in the monitored set
\* while the batch is monitored, and is handed to the Close phase when the
\* monitoring ends with its position still open.
C35_StopLossKeepsFailed ==
    /\ trade.pc = "monitor" => trade.sl_failed \subseteq trade.open_positions
    /\ trade.pc = "monitored"
          => trade.sl_failed \cap trade.holding \subseteq trade.close_attempted

PipelineOrder(stop_loss_enabled) ==
    IF stop_loss_enabled
    THEN <<"leverage_set", "open", "stop_loss_place", "monitor", "close", "release">>
    ELSE <<"leverage_set", "open", "monitor", "close", "release">>

\* C32: the steps a worker has run for a task are, in order, a beginning of
\* Leverage-Set, Open, Stop-Loss-Place (exactly when stop loss is enabled),
\* Monitor, Close, Release.
C32_PipelineOrder ==
    LET order == PipelineOrder(trade.stop_loss_enabled)
    IN /\ Len(trade.steps) <= Len(order)
       /\ trade.steps = SubSeq(order, 1, Len(trade.steps))

\* C21: the accounts of a batch are released to the pool only once every one
\* of them has no open position or had a close run on it: no released account
\* holds a position that no close was attempted for.
C21_ReleasedAfterClose ==
    trade.pc = "released" =>
        \A a \in trade.released :
            a \notin trade.holding \/ a \in trade.close_attempted


(***************************************************************************)
(* orderbook_cache.py: update_orderbook and get_prices                      *)
(***************************************************************************)
\* market names as the feed passes them and as callers ask for them
FeedMarkets == {"BTC-USD", "eth-usd"}
QueryMarkets == {"BTC-USD", "btc", "eth-usd", "SOL"}

\* str.upper()
Upper(market) ==
    CASE market = "btc" -> "BTC"
      [] market = "btc-USD" -> "BTC-USD"
      [] market = "eth-usd" -> "ETH-USD"
      [] OTHER -> market

\* '-' in market
HasDash(market) == market \in {"BTC-USD", "btc-USD", "eth-usd", "ETH-USD", "SOL-USD"}

\* f"{market}-USD"
WithUSD(market) ==
    CASE market = "btc" -> "btc-USD"
      [] market = "BTC" -> "BTC-USD"
      [] market = "SOL" -> "SOL-USD"

\* the two sides of a book message, best level first; [q |-> "1"] is a level
\* without a 'p' key
BidSides == {<< >>, <<[p |-> "1"]>>, <<[p |-> "2.0"], [p |-> "1"]>>,
             <<[p |-> "0"]>>, <<[p |-> "abc"]>>, <<[q |-> "1"]>>}
AskSides == {<< >>, <<[p |-> "2.0"]>>, <<[p |-> "abc"]>>, <<[q |-> "1"]>>}

\* Decimal(str(p)): the strings it accepts and their values
IsDecimal(p) == p \in {"0", "1", "2.0"}
Decimal(p) == CASE p = "0" -> 0 [] p = "1" -> 1 [] p = "2.0" -> 2

Put(dict, key, value) ==
    [k \in DOMAIN dict \cup {key} |-> IF k = key THEN value ELSE dict[k]]

\* OrderBookCache.update_orderbook: the cache after the call and how the call
\* ended: "empty" and "logged" return, "raised" lets InvalidOperation or
\* DivisionByZero out (neither is a KeyError, ValueError or IndexError)
update_orderbook(cache, market, bids, asks, t) ==
    IF bids = << >> \/ asks = << >>
    THEN [cache |-> cache, outcome |-> "empty"]
    ELSE IF "p" \notin DOMAIN bids[1]
    THEN [cache |-> cache, outcome |-> "logged"]
    ELSE IF ~IsDecimal(bids[1].p)
    THEN [cache |-> cache, outcome |-> "raised"]
    ELSE IF "p" \notin DOMAIN asks[1]
    THEN [cache |-> cache, outcome |-> "logged"]
    ELSE IF ~IsDecimal(asks[1].p)
    THEN [cache |-> cache, outcome |-> "raised"]
    ELSE LET best_bid == Decimal(bids[1].p)
             best_ask == Decimal(asks[1].p)
             spread == best_ask - best_bid
         IN IF best_bid = 0
            THEN [cache |-> cache, outcome |-> "raised"]
            ELSE [cache |-> Put(cache, Upper(market),
                                [bid |-> best_bid, ask |-> best_ask,
                                 timestamp |-> t, spread |-> spread,
                                 spread_percent |-> [num |-> spread * 100,
                                                     den |-> best_bid],
                                 mid_price |-> [num |-> best_bid + best_ask,
                                                den |-> 2]]),
                  outcome |-> "stored"]

\* get_prices: `if '-' not in market: market = f"{market}-USD"`, then upper()
CacheKey(market) == Upper(IF HasDash(market) THEN market ELSE WithUSD(market))

\* as get_prices, with >= for >
get_prices_strict(cache, market, max_age_seconds, t) ==
    LET key == CacheKey(market)
    IN IF key \notin DOMAIN cache THEN NoPrices
       ELSE IF t - cache[key].timestamp >= max_age_seconds THEN NoPrices
       ELSE [found |-> TRUE, bid |-> cache[key].bid, ask |-> cache[key].ask]

\* OrderBookCache.get_prices
get_prices(cache, market, max_age_seconds, t) ==
    LET key == CacheKey(market)
    IN IF key \notin DOMAIN cache THEN NoPrices
       ELSE IF t - cache[key].timestamp > max_age_seconds THEN NoPrices
       ELSE [found |-> TRUE, bid |-> cache[key].bid, ask |-> cache[key].ask]

\* an update whose two sides are non-empty
BothSides(bids, asks) == bids # << >> /\ asks # << >>

\* the price a level carries, None when there is none to read
LevelPrice(level) ==
    IF "p" \in DOMAIN level /\ IsDecimal(level.p) THEN Decimal(level.p) ELSE None

\* an update with both sides non-empty, a readable best bid and best ask, and
\* a best bid other than zero
WellFormed(bids, asks) ==
    /\ BothSides(bids, asks)
    /\ LevelPrice(bids[1]) # None /\ LevelPrice(asks[1]) # None
    /\ LevelPrice(bids[1]) # 0

CacheUnchanged == UNCHANGED <<poolVars, apiVars, orchVars, dist, opn, cls, bcls,
                              closeall, trade>>

UpdateOrderbook(market, bids, asks) ==
    /\ LET out == update_orderbook(orderbook_cache.cache, market, bids, asks, now)
           quote == [bid |-> LevelPrice(bids[1]), ask |-> LevelPrice(asks[1])]
       IN orderbook_cache' =
            [cache |-> out.cache,
             latest |-> IF WellFormed(bids, asks)
                        THEN Put(orderbook_cache.latest, Upper(market),
                                 [bid |-> quote.bid, ask |-> quote.ask,
                                  timestamp |-> now])
                        ELSE orderbook_cache.latest,
             offered |-> IF BothSides(bids, asks)
                         THEN Put(orderbook_cache.offered, Upper(market), quote)
                         ELSE orderbook_cache.offered,
             call |-> [NoCacheCall EXCEPT !.op = "update_orderbook",
                                          !.market = market, !.time = now,
                                          !.well_formed = WellFormed(bids, asks),
                                          !.outcome = out.outcome]]
    /\ CacheUnchanged

GetPrices(market, max_age_seconds) ==
    /\ orderbook_cache' =
         [orderbook_cache EXCEPT
            !.call = [NoCacheCall EXCEPT
                        !.op = "get_prices", !.market = market,
                        !.max_age_seconds = max_age_seconds, !.time = now,
                        !.outcome = "returned",
                        !.result = get_prices(orderbook_cache.cache, market,
                                              max_age_seconds, now)]]
    /\ CacheUnchanged

\* OrderBookCache.get_spread_percent: the entry's spread percent as the
\* quotient num / den, is_none when the market has no entry
get_spread_percent(cache, market) ==
    IF CacheKey(market) \notin DOMAIN cache
    THEN [is_none |-> TRUE, num |-> 0, den |-> 1]
    ELSE [is_none |-> FALSE, num |-> cache[CacheKey(market)].spread_percent.num,
          den |-> cache[CacheKey(market)].spread_percent.den]

\* BatchTrader._get_orderbook_price: where bid and ask come from, with the
\* websocket cache enabled and the REST fallback on; rest_ok is whether
\* get_market_stats returns
get_orderbook_price(cache, market, cache_max_age, rest_ok, t) ==
    IF get_prices(cache, market, cache_max_age, t).found THEN "cache"
    ELSE IF rest_ok THEN "rest"
    ELSE "none"

\* _open_position_with_limit_retry, one attempt up to the limit price: the
\* bid/ask lookup and the choice of the offset (use_adaptive_offset on)
LimitPrice(market, cache_max_age, rest_ok) ==
    /\ LET cache == orderbook_cache.cache
           source == get_orderbook_price(cache, market, cache_max_age, rest_ok, now)
           spread_percent == get_spread_percent(cache, market)
       IN orderbook_cache' =
            [orderbook_cache EXCEPT
               !.call = [NoCacheCall EXCEPT
                           !.op = "limit_price", !.market = market,
                           !.max_age_seconds = cache_max_age, !.time = now,
                           !.outcome = IF source = "none" THEN "retry" ELSE "priced",
                           !.prices_from = source,
                           !.offset_from =
                              IF source = "none" THEN "none"
                              ELSE IF ~spread_percent.is_none /\ spread_percent.num > 0
                              THEN "spread" ELSE "static"]]
    /\ CacheUnchanged

CacheInit ==
    /\ Constructed
    /\ TraderIdle

CacheNext ==
    \/ \E market \in FeedMarkets, bids \in BidSides, asks \in AskSides :
          UpdateOrderbook(market, bids, asks)
    \/ \E market \in QueryMarkets, max_age_seconds \in 0..MaxAge :
          GetPrices(market, max_age_seconds)
    \/ \E market \in QueryMarkets, cache_max_age \in 0..MaxAge, rest_ok \in BOOLEAN :
          LimitPrice(market, cache_max_age, rest_ok)
    \/ Tick

CacheSpec == CacheInit /\ [][CacheNext]_vars

\* whether the history `updates` holds, for the market asked, an update no
\* older than max_age_seconds at the time of the call
Fresh(updates, call) ==
    /\ CacheKey(call.market) \in DOMAIN updates
    /\ call.time - updates[CacheKey(call.market)].timestamp <= call.max_age_seconds

\* C30: get_prices(market, max_age) returns the bid and ask of the latest
\* well-formed update for that market (both sides non-empty, best bid and
\* best ask readable, best bid not zero) iff there was one and it is no older
\* than max_age, and returns nothing otherwise; every other update, an empty
\* bid or ask side included, leaves the whole cache as it was.
C30_FreshPrices ==
    [][LET call == orderbook_cache'.call
           latest == orderbook_cache'.latest
       IN /\ call.op = "get_prices"
               => IF Fresh(latest, call)
                  THEN call.result = [found |-> TRUE,
                                      bid |-> latest[CacheKey(call.market)].bid,
                                      ask |-> latest[CacheKey(call.market)].ask]
                  ELSE call.result = NoPrices
          /\ (call.op = "update_orderbook" /\ ~call.well_formed)
               => orderbook_cache'.cache = orderbook_cache.cache]_vars

C30_Witness ==
    LET call == orderbook_cache.call
    IN /\ call.op = "get_prices" /\ call.market = "btc"
       /\ call.result = [found |-> TRUE, bid |-> 1, ask |-> 2]
       /\ call.time - orderbook_cache.cache["BTC-USD"].timestamp = call.max_age_seconds
       /\ call.max_age_seconds = 1
       /\ orderbook_cache.offered["BTC-USD"].bid = None

\* C30 as stated: get_prices returns something iff the cache holds an entry
\* for that market no older than max_age, and what it returns is the bid and
\* ask of the latest update for that market with both sides non-empty.
C30_LatestUpdate ==
    LET call == orderbook_cache.call
        key == CacheKey(call.market)
        offered == orderbook_cache.offered
    IN call.op = "get_prices"
         => IF Fresh(orderbook_cache.cache, call)
            THEN call.result = [found |-> TRUE, bid |-> offered[key].bid,
                                ask |-> offered[key].ask]
            ELSE call.result = NoPrices

\* C31: the offset of a limit price is computed from the cached spread only
\* when the market's cache entry is no older than the cache max age at the
\* time of pricing.
C31_NoStaleSpread ==
    LET call == orderbook_cache.call
    IN (call.op = "limit_price" /\ call.offset_from = "spread")
         => Fresh(orderbook_cache.cache, call)

====
